---- MODULE Spec2Model ----
(***************************************************************************)
(* Verification model of the example programs of rust-atomics-and-locks.   *)
(*                                                                         *)
(* Part 1: the "Fetch_&_Modify: Synchronization" block of                  *)
(* crates/threads/src/bin/simple-atomic.rs (lines 38-95): NUM_THREADS      *)
(* scoped worker threads each perform ADDS_PER_THREAD fetch_add(1) calls   *)
(* on atomic_num_done, fold the distance between their own consecutive     *)
(* fetch_add results into atomic_max_diff with fetch_max, and unpark the   *)
(* main thread, which loops { load; if done break else park }.             *)
(*                                                                         *)
(* Memory model.  Every access is Relaxed.  A read-modify-write always     *)
(* reads the newest value in the modification order of its atomic, so      *)
(* fetch_add and fetch_max act on the variable itself.  A Relaxed load may *)
(* return any value that is not older than what the loading thread is      *)
(* already known to have seen (coherence) or than a write that             *)
(* happens-before the load; unpark -> park-return is such an edge.  The    *)
(* model keeps, for the main thread, the oldest position of                *)
(* atomic_num_done it may still read (main_view); because the counter's    *)
(* modification order is 0, 1, 2, ... a position is named by its value.    *)
(*                                                                         *)
(* Part 2: the stop flag of crates/threads/src/bin/atomic.rs (the same     *)
(* code opens simple-atomic.rs, lines 14-37): main spawns a thread that    *)
(* polls STOP, reads commands from stdin, stores true and joins.           *)
(*                                                                         *)
(* Part 3: crates/utilities/src/hidden_value.rs: HiddenValue::new,         *)
(* new_from_env, expose_value and the Debug rendering, as functions of     *)
(* their inputs.  A string is a sequence of characters; the character      *)
(* "gamma" stands for a two-byte UTF-8 character, "x" for an ASCII one.    *)
(*                                                                         *)
(* Part 4: the Compare_&_Exchange block of simple-atomic.rs (lines         *)
(* 96-149): threads calling plus_just_one, a compare_exchange_weak retry   *)
(* loop, on one AtomicIsize.                                               *)
(*                                                                         *)
(* Part 5: crates/threads/src/bin/park-and-condvar.rs: a producer and a    *)
(* consumer around a Mutex<VecDeque>, the consumer waiting by thread::park *)
(* (lines 18-42) or on a Condvar (lines 49-76).                            *)
(*                                                                         *)
(* Part 6: the Mutex block (lines 105-130) and the OnceLock loop (lines     *)
(* 194-216) of crates/threads/src/bin/interior-mut.rs: scoped threads that *)
(* each add a batch to the integer in a Mutex under one guard, and scoped  *)
(* threads racing on OnceLock::get_or_init.  OnceLock is modelled by the   *)
(* state of its std::sync::Once (incomplete, running, complete) and its    *)
(* value slot.                                                             *)
(*                                                                         *)
(* The parts are separate programs: each specification runs one and        *)
(* leaves the variables of the others at their initial values.             *)
(***************************************************************************)
EXTENDS Integers, Sequences, FiniteSets, TLC

\* ----------------------------------------------------------------- sizes
\* const NUM_THREADS (line 40, 50 in the source) and const ADDS_PER_THREAD
\* (line 41, 100 in the source), scaled down so that the state space is finite
\* and small.  No step of the program depends on the actual numbers.
NUM_THREADS == 2
ADDS_PER_THREAD == 2

Max(a, b) == IF a >= b THEN a ELSE b

VARIABLES
    num_threads,            \* the value of NUM_THREADS in this run (never changes)
    adds_per_thread,        \* the value of ADDS_PER_THREAD in this run (never changes)
    atomic_num_done,        \* AtomicUsize, line 43
    atomic_max_diff,        \* AtomicUsize, line 44
    token,                  \* park token of the main thread (line 45 handle)
    token_view,             \* newest counter write published by the pending unparks
    wpc,                    \* worker -> position in the closure of lines 49-76
    iter,                   \* worker -> completed iterations of the for loop, line 54
    incoming_counter_value, \* worker -> local of line 57
    last_counter_value,     \* worker -> local of line 52
    max_diff,               \* worker -> local of line 51
    mpc,                    \* position of the main thread in lines 48-95
    spawned,                \* loop variable t of line 48: workers spawned so far
    current_done,           \* main's local of line 79 (kept between iterations)
    main_view,              \* oldest counter value main's next load may return
    \* history variables (observations of the run, not program state)
    prev_counts,            \* worker -> sequence of values its fetch_add calls returned
    obs_gap,                \* largest (read - previous read) over main's loads
    wakes_pending,          \* unpark calls since park last consumed the token
    last_fetch_max,         \* [arg, old] of the most recent fetch_max call
    park_cause,             \* how park last returned ("token", "spurious"); "none" once main has loaded again
    since_load,             \* "no_load", or since main's last load: "quiet" (no fetch_add),
                            \* "requiet" (quiet, and that load itself followed a quiet spell), "added"
    wake_after_load,        \* an unpark was issued since main's last load
    unparks                 \* worker -> number of unpark calls it has made (line 70)

\* atomic.rs
VARIABLES
    STOP,                   \* static AtomicBool, line 8
    stop_main,              \* position of main in lines 11-27
    stop_bg,                \* position of the background thread in lines 12-15
    bg_sees,                \* the store of line 26 has become visible to the background thread
    lines_read,             \* lines of stdin consumed by the loop of line 19
    stop_out,               \* what main printed last (lines 21, 23)
    stop_writes,            \* history: the threads that stored to STOP, in order
    stop_line               \* what the stdin iterator of line 19 returned last: a line,
                            \* "<eof>", "<err>", or "<none>" before the first read

\* hidden_value.rs
VARIABLES
    hv_pc,                  \* "idle", "input" (arguments chosen), "built"
    hv_mode,                \* which constructor is called: "new" or "from_env"
    hv_value,               \* argument `value` of new (line 183)
    hv_obf,                 \* argument `obf_string` of new (line 189)
    hv_env,                 \* the environment's value for `key` (line 124)
    hv_dotenv,              \* the value a .env file holds for `key` (line 116)
    hv_load_env_file,       \* argument `load_env_file` (line 102)
    hv_reveal_len,          \* argument `reveal_len` (line 108)
    hv_result,              \* the Result returned by the constructor
    hv_debug,               \* format!("{:?}", hidden), once rendered
    hv_exposed              \* *hidden.expose_value(), once called

\* simple-atomic.rs, Compare_&_Exchange block
VARIABLES
    atomic_num,             \* AtomicIsize, line 120
    no_non_one_diffs,       \* AtomicBool, line 121
    cas_main,               \* position of main in lines 122-148
    cas_spawned,            \* loop variable t of line 123: threads spawned so far
    cas_pc,                 \* thread -> position in lines 125-138 and 101-118
    cas_calls,              \* thread -> completed iterations of the loop of line 125
    current,                \* thread -> local of line 102
    new_value,              \* thread -> local of line 106 (returned at line 113)
    previous_value,         \* thread -> Ok(previous_value) of line 109 (returned at line 113)
    cas_view,               \* thread -> oldest value of atomic_num its next load may return
    \* history variables
    cas_results,            \* thread -> sequence of the pairs its calls returned
    spurious_fails,         \* failed exchanges that observed the expected value
    contended               \* some exchange has failed observing another value

\* park-and-condvar.rs
VARIABLES
    pq_mode,                \* which block runs: "park" (lines 14-43) or "condvar" (lines 44-77)
    queue,                  \* the VecDeque inside the Mutex, lines 18 and 49
    queue_lock,             \* holder of the Mutex: "none", "producer", "consumer"
    prod_pc,                \* position of the producer (main) in lines 36-41 / 71-75
    prod_i,                 \* loop variable i of lines 36 / 71
    cons_pc,                \* position of the consumer in lines 22-32 / 54-68
    item,                   \* the consumer's local `item` (Option<usize>), lines 23 / 56
    pq_token,               \* park token of the consumer thread
    cv_notified,            \* the waiting consumer has been chosen by notify_one
    popped                  \* history: the items the consumer dequeued, in order

\* interior-mut.rs, the Mutex block (lines 105-130)
VARIABLES
    mutex_n,                \* the integer inside `n`, line 110
    n_guard,                \* holder of the MutexGuard of n: a thread index, or NoThread
    mx_main,                \* position of main in lines 111-128
    mx_spawned,             \* number of threads spawned by the loop of line 113
    mx_pc,                  \* thread -> position in the closure of lines 115-123
    mx_adds,                \* thread -> iterations done of the loop of line 117
    mx_seen,                \* thread -> the value printed at line 116 (NoI32 before)
    mx_out                  \* the values main printed at lines 111 and 128

\* interior-mut.rs, the OnceLock loop (lines 198-216)
VARIABLES
    once_lockos,            \* the value slot of the OnceLock, line 199
    once_state,             \* state of its Once: "incomplete", "running", "complete"
    ol_main,                \* position of main in lines 198-216
    ol_round,               \* iterations started of the loop of line 198
    ol_spawned,             \* number of threads spawned by the loop of line 202
    ol_pc,                  \* thread -> position in the closure of lines 205-211
    val,                    \* thread -> its local `val`, line 206 (NoI32 before)
    ol_inits,               \* history: indices of the threads whose initialiser ran
    ol_gets                 \* what main read at lines 200 and 215 in this round

mx_vars == << mutex_n, n_guard, mx_main, mx_spawned, mx_pc, mx_adds, mx_seen, mx_out >>
ol_vars == << once_lockos, once_state, ol_main, ol_round, ol_spawned, ol_pc, val,
              ol_inits, ol_gets >>

cas_vars == << atomic_num, no_non_one_diffs, cas_main, cas_spawned, cas_pc, cas_calls,
               current, new_value, previous_value, cas_view, cas_results,
               spurious_fails, contended >>
pq_vars == << pq_mode, queue, queue_lock, prod_pc, prod_i, cons_pc, item, pq_token,
              cv_notified, popped >>

stop_vars == << STOP, stop_main, stop_bg, bg_sees, lines_read, stop_out, stop_writes,
               stop_line >>
hv_vars == << hv_pc, hv_mode, hv_value, hv_obf, hv_env, hv_dotenv, hv_load_env_file,
              hv_reveal_len, hv_result, hv_debug, hv_exposed >>

\* what the steps of the Fetch_&_Modify block leave alone
off_tracker == << stop_vars, hv_vars, cas_vars, pq_vars, mx_vars, ol_vars >>

sizes == << num_threads, adds_per_thread >>

Workers == 0 .. (num_threads - 1)
Total == num_threads * adds_per_thread

tracker_vars == << num_threads, adds_per_thread, atomic_num_done, atomic_max_diff, token, token_view, wpc, iter,
           incoming_counter_value, last_counter_value, max_diff, mpc, spawned,
           current_done, main_view, prev_counts, obs_gap, wakes_pending,
           last_fetch_max, park_cause, since_load, wake_after_load, unparks >>

vars == << tracker_vars, stop_vars, hv_vars, cas_vars, pq_vars, mx_vars, ol_vars >>

shared == << atomic_num_done, atomic_max_diff >>
parking == << token, token_view, wakes_pending >>
wlocals == << wpc, iter, incoming_counter_value, last_counter_value, max_diff >>
mlocals == << mpc, spawned, current_done, main_view, obs_gap >>
obs_hist == << park_cause, since_load, wake_after_load >>

\* ------------------------------------------------------ atomic operations
\* Faulty variants of the operations below; each is substituted for the
\* operation named in its comment to show that a property depends on it.
\* fetch_add whose store is lost (a plain load in place of the read-modify-write)
FetchAddLost(old) == old
\* fetch_add(2)
FetchAddTwo(old) == old + 2
\* fetch_add on a counter too narrow for the total: wraps to 0
FetchAddWrap(old) == (old + 1) % 3
\* fetch_max replaced by a plain store
FetchMaxStore(old, v) == v
\* fetch_max fed the new counter value instead of the distance
CheckedSubNone(a, b) == IF a >= b THEN a ELSE -1
\* load that ignores coherence: any value the counter ever held
LoadAnyOlder(view, latest) == 0 .. latest
\* unpark that leaves the token as it was
UnparkNothing(tok) == tok
\* completion test that is off by one
IsCompleteEarly(done) == done >= Total - 1
\* load that returns a value the counter has not reached yet
LoadBeyond(view, latest) == view .. (latest + 1)

\* completion test that also looks at the max-diff statistic
IsCompleteByMaxDiff(done) == done >= Total \/ atomic_max_diff >= Total - 1

\* AtomicUsize::fetch_add(1, Relaxed): the value stored; the call returns the old one.
\* (usize wrap-around is out of reach: the counter never exceeds Total.)
FetchAddNew(old) == old + 1

\* AtomicUsize::fetch_max(v, Relaxed): the value stored.
FetchMaxNew(old, v) == Max(old, v)

\* AtomicUsize::load(Relaxed) by a thread whose view is `view`.
LoadChoices(view, latest) == view .. latest

\* usize::checked_sub: None (here -1) when the result would be negative.
CheckedSub(a, b) == IF a >= b THEN a - b ELSE -1

\* Thread::unpark: makes the token available (idempotent).
UnparkToken(tok) == TRUE

\* the test of line 86
IsComplete(done) == done >= Total

\* ------------------------------------------------------------------ Init
TrackerInit ==
    /\ atomic_num_done = 0
    /\ atomic_max_diff = 0
    /\ token = FALSE
    /\ token_view = 0
    /\ wpc = [t \in Workers |-> "unspawned"]
    /\ iter = [t \in Workers |-> 0]
    /\ incoming_counter_value = [t \in Workers |-> 0]
    /\ last_counter_value = [t \in Workers |-> 0]
    /\ max_diff = [t \in Workers |-> 0]
    /\ mpc = "spawn"
    /\ spawned = 0
    /\ current_done = 0
    /\ main_view = 0
    /\ prev_counts = [t \in Workers |-> << >>]
    /\ obs_gap = 0
    /\ wakes_pending = 0
    /\ last_fetch_max = [arg |-> 0, old |-> 0]
    /\ park_cause = "none"
    /\ since_load = "no_load"
    /\ wake_after_load = FALSE
    /\ unparks = [t \in Workers |-> 0]

\* atomic.rs before main runs
StopInit ==
    /\ STOP = FALSE
    /\ stop_main = "spawn"
    /\ stop_bg = "unspawned"
    /\ bg_sees = FALSE
    /\ lines_read = 0
    /\ stop_out = "none"
    /\ stop_writes = << >>
    /\ stop_line = "<none>"

\* Option<String>: None, Some(s)
None == [some |-> FALSE, v |-> << >>]
Some(s) == [some |-> TRUE, v |-> s]

\* Option<NonZeroUsize>
NoLen == [some |-> FALSE, n |-> 0]
SomeLen(n) == [some |-> TRUE, n |-> n]

\* a value of the wrapped type T: a String, or an i32
StringValue(s) == [ty |-> "String", s |-> s, n |-> 0]
IntValue(n) == [ty |-> "i32", s |-> << >>, n |-> n]

\* Option<&T>
NoValue == [some |-> FALSE, v |-> StringValue(<< >>)]
SomeValue(v) == [some |-> TRUE, v |-> v]

\* Result<HiddenValue<T>, HiddenValueError>, and "no call made yet"
NoResult ==
    [tag |-> "none", value |-> StringValue(<< >>), obf_string |-> None,
     err |-> "", requested |-> 0, actual |-> 0]
Ok(value, obf_string) ==
    [tag |-> "Ok", value |-> value, obf_string |-> obf_string,
     err |-> "", requested |-> 0, actual |-> 0]
Err(err, requested, actual) ==
    [tag |-> "Err", value |-> StringValue(<< >>), obf_string |-> None,
     err |-> err, requested |-> requested, actual |-> actual]

\* no HiddenValue call in progress
HvIdle ==
    /\ hv_pc = "idle"
    /\ hv_mode = "new"
    /\ hv_value = StringValue(<< >>)
    /\ hv_obf = None
    /\ hv_env = None
    /\ hv_dotenv = None
    /\ hv_load_env_file = FALSE
    /\ hv_reveal_len = NoLen
    /\ hv_result = NoResult
    /\ hv_debug = None
    /\ hv_exposed = NoValue

\* the Compare_&_Exchange block: `for t in 0..10` (line 123) and
\* `for _ in 0..10` (line 125), scaled down
CAS_THREADS == 2
CAS_CALLS == 2
CasThreads == 0 .. (CAS_THREADS - 1)

\* Option<usize>
NoItem == [some |-> FALSE, v |-> 0]
SomeItem(v) == [some |-> TRUE, v |-> v]

\* lines 120-122: both atomics created, no thread spawned yet
CasInit ==
    /\ atomic_num = 0
    /\ no_non_one_diffs = TRUE
    /\ cas_main = "spawn"
    /\ cas_spawned = 0
    /\ cas_pc = [t \in CasThreads |-> "unspawned"]
    /\ cas_calls = [t \in CasThreads |-> 0]
    /\ current = [t \in CasThreads |-> 0]
    /\ new_value = [t \in CasThreads |-> 0]
    /\ previous_value = [t \in CasThreads |-> 0]
    /\ cas_view = [t \in CasThreads |-> 0]
    /\ cas_results = [t \in CasThreads |-> << >>]
    /\ spurious_fails = 0
    /\ contended = FALSE

\* park-and-condvar.rs, lines 18-19 / 49-52: an empty queue, nobody started
PqInit ==
    /\ queue = << >>
    /\ queue_lock = "none"
    /\ prod_pc = "spawn"
    /\ prod_i = 0
    /\ cons_pc = "unspawned"
    /\ item = NoItem
    /\ pq_token = FALSE
    /\ cv_notified = FALSE
    /\ popped = << >>

\* interior-mut.rs: the numbers of threads (lines 113 and 202, 10 and 12 in
\* the source), the batch of one thread (line 117, 100 in the source) and the
\* rounds of the OnceLock loop (line 198, 3 in the source), scaled down
MX_THREADS == 3
MX_ADDS == 2
OL_THREADS == 3
OL_ROUNDS == 2
MxThreads == 0 .. (MX_THREADS - 1)
OlThreads == 0 .. (OL_THREADS - 1)

\* no thread holds the guard
NoThread == 0 - 1

\* Option<i32>
NoI32 == [some |-> FALSE, v |-> 0]
SomeI32(v) == [some |-> TRUE, v |-> v]

\* interior-mut.rs, line 110: Mutex::new(0), before the first print
MxInit ==
    /\ mutex_n = 0
    /\ n_guard = NoThread
    /\ mx_main = "print"
    /\ mx_spawned = 0
    /\ mx_pc = [t \in MxThreads |-> "unspawned"]
    /\ mx_adds = [t \in MxThreads |-> 0]
    /\ mx_seen = [t \in MxThreads |-> NoI32]
    /\ mx_out = << >>

\* interior-mut.rs, line 198: before the first round of the OnceLock loop
OnceInit ==
    /\ once_lockos = NoI32
    /\ once_state = "incomplete"
    /\ ol_main = "new"
    /\ ol_round = 0
    /\ ol_spawned = 0
    /\ ol_pc = [t \in OlThreads |-> "unspawned"]
    /\ val = [t \in OlThreads |-> NoI32]
    /\ ol_inits = << >>
    /\ ol_gets = << >>

\* the two blocks of interior-mut.rs, not running
InteriorIdle ==
    /\ MxInit
    /\ OnceInit

\* the programs of the other parts, not running
OthersIdle ==
    /\ CasInit
    /\ pq_mode = "park"
    /\ PqInit
    /\ InteriorIdle

\* the Fetch_&_Modify block as written: both sizes are the constants of lines 40-41
Init ==
    /\ num_threads = NUM_THREADS
    /\ adds_per_thread = ADDS_PER_THREAD
    /\ TrackerInit
    /\ StopInit
    /\ HvIdle
    /\ OthersIdle

\* the Fetch_&_Modify block not running
TrackerIdle ==
    /\ num_threads = NUM_THREADS
    /\ adds_per_thread = ADDS_PER_THREAD
    /\ TrackerInit

\* the same program run with a single worker, for each number of reports up
\* to one more than ADDS_PER_THREAD
InitSingle ==
    /\ num_threads = 1
    /\ adds_per_thread \in 1 .. (ADDS_PER_THREAD + 1)
    /\ TrackerInit
    /\ StopInit
    /\ HvIdle
    /\ OthersIdle

\* --------------------------------------------------------------- workers
\* lines 48-49: main spawns worker `spawned`; after the last one it enters the loop.
Spawn ==
    /\ mpc = "spawn"
    /\ spawned < num_threads
    /\ wpc' = [wpc EXCEPT ![spawned] = "fetch_add"]
    /\ spawned' = spawned + 1
    /\ mpc' = IF spawned + 1 = num_threads THEN "load" ELSE "spawn"
    /\ UNCHANGED << off_tracker, sizes, unparks, shared, parking, iter, incoming_counter_value,
                    last_counter_value, max_diff, current_done, main_view,
                    prev_counts, obs_gap, last_fetch_max, obs_hist >>

\* lines 55-57: sleep, then fetch_add(1, Relaxed).
WFetchAdd(t) ==
    /\ wpc[t] = "fetch_add"
    /\ incoming_counter_value' = [incoming_counter_value EXCEPT ![t] = atomic_num_done]
    /\ atomic_num_done' = FetchAddNew(atomic_num_done)
    /\ prev_counts' = [prev_counts EXCEPT ![t] = Append(@, atomic_num_done)]
    /\ wpc' = [wpc EXCEPT ![t] = "diff"]
    /\ since_load' = IF since_load \in {"quiet", "requiet"} THEN "added" ELSE since_load
    /\ UNCHANGED << off_tracker, sizes, unparks, atomic_max_diff, parking, iter, last_counter_value,
                    max_diff, mlocals, last_fetch_max, park_cause, wake_after_load >>

\* Faulty variant of WDiff: the wake is issued only for a new local maximum;
\* otherwise the iteration ends right after the bookkeeping.
WDiffSkipsWake(t) ==
    /\ wpc[t] = "diff"
    /\ LET curr_diff == CheckedSub(incoming_counter_value[t], last_counter_value[t])
       IN  IF curr_diff < 0
           THEN /\ wpc' = [wpc EXCEPT ![t] = "panicked"]
                /\ UNCHANGED << atomic_max_diff, max_diff, last_counter_value,
                                last_fetch_max, iter >>
           ELSE /\ IF curr_diff > max_diff[t]
                   THEN /\ max_diff' = [max_diff EXCEPT ![t] = Max(@, curr_diff)]
                        /\ atomic_max_diff' = FetchMaxNew(atomic_max_diff, curr_diff)
                        /\ last_fetch_max' = [arg |-> curr_diff, old |-> atomic_max_diff]
                        /\ wpc' = [wpc EXCEPT ![t] = "unpark"]
                        /\ UNCHANGED iter
                   ELSE /\ iter' = [iter EXCEPT ![t] = @ + 1]
                        /\ wpc' = [wpc EXCEPT ![t] =
                               IF iter[t] + 1 < adds_per_thread THEN "fetch_add" ELSE "done"]
                        /\ UNCHANGED << max_diff, atomic_max_diff, last_fetch_max >>
                /\ last_counter_value' =
                       [last_counter_value EXCEPT ![t] = incoming_counter_value[t]]
    /\ UNCHANGED << off_tracker, sizes, unparks, atomic_num_done, parking,
                    incoming_counter_value, mlocals, prev_counts, obs_hist >>

\* lines 60-67: checked_sub(..).expect(..), local and shared maximum, cursor.
WDiff(t) ==
    /\ wpc[t] = "diff"
    /\ LET curr_diff == CheckedSub(incoming_counter_value[t], last_counter_value[t])
       IN  IF curr_diff < 0
           THEN \* expect() panics: the thread unwinds out of the closure
                /\ wpc' = [wpc EXCEPT ![t] = "panicked"]
                /\ UNCHANGED << atomic_max_diff, max_diff, last_counter_value,
                                last_fetch_max >>
           ELSE /\ IF curr_diff > max_diff[t]
                   THEN /\ max_diff' = [max_diff EXCEPT ![t] = Max(@, curr_diff)]
                        /\ atomic_max_diff' = FetchMaxNew(atomic_max_diff, curr_diff)
                        /\ last_fetch_max' = [arg |-> curr_diff, old |-> atomic_max_diff]
                   ELSE UNCHANGED << max_diff, atomic_max_diff, last_fetch_max >>
                /\ last_counter_value' =
                       [last_counter_value EXCEPT ![t] = incoming_counter_value[t]]
                /\ wpc' = [wpc EXCEPT ![t] = "unpark"]
    /\ UNCHANGED << off_tracker, sizes, unparks, atomic_num_done, parking, iter, incoming_counter_value,
                    mlocals, prev_counts, obs_hist >>

\* Faulty variant of WUnpark: a rendezvous that waits until main is parked
\* and the previous wake has been consumed.
WUnparkRendezvous(t) ==
    /\ wpc[t] = "unpark"
    /\ mpc = "park"
    /\ ~token
    /\ token' = TRUE
    /\ token_view' = Max(token_view, incoming_counter_value[t] + 1)
    /\ wakes_pending' = wakes_pending + 1
    /\ iter' = [iter EXCEPT ![t] = @ + 1]
    /\ wpc' = [wpc EXCEPT ![t] =
                  IF iter[t] + 1 < adds_per_thread THEN "fetch_add" ELSE "done"]
    /\ wake_after_load' = TRUE
    /\ unparks' = [unparks EXCEPT ![t] = @ + 1]
    /\ UNCHANGED << off_tracker, sizes, shared, incoming_counter_value, last_counter_value,
                    max_diff, mlocals, prev_counts, last_fetch_max, park_cause,
                    since_load >>

\* lines 70-75: unpark main, print, next iteration or end of the closure.
WUnpark(t) ==
    /\ wpc[t] = "unpark"
    /\ token' = UnparkToken(token)
    /\ token_view' = Max(token_view, incoming_counter_value[t] + 1)
    /\ wakes_pending' = wakes_pending + 1
    /\ iter' = [iter EXCEPT ![t] = @ + 1]
    /\ wpc' = [wpc EXCEPT ![t] =
                  IF iter[t] + 1 < adds_per_thread THEN "fetch_add" ELSE "done"]
    /\ wake_after_load' = TRUE
    /\ unparks' = [unparks EXCEPT ![t] = @ + 1]
    /\ UNCHANGED << off_tracker, sizes, shared, incoming_counter_value, last_counter_value,
                    max_diff, mlocals, prev_counts, last_fetch_max, park_cause,
                    since_load >>

Worker(t) == WFetchAdd(t) \/ WDiff(t) \/ WUnpark(t)

\* -------------------------------------------------------------- observer
\* line 79: atomic_num_done.load(Relaxed)
ObsLoad ==
    /\ mpc = "load"
    /\ \E v \in LoadChoices(main_view, atomic_num_done) :
          /\ current_done' = v
          /\ main_view' = v
          /\ obs_gap' = Max(obs_gap, v - current_done)
    /\ mpc' = "check"
    /\ park_cause' = "none"
    /\ since_load' = IF since_load \in {"quiet", "requiet"} THEN "requiet" ELSE "quiet"
    /\ wake_after_load' = FALSE
    /\ UNCHANGED << off_tracker, sizes, unparks, shared, parking, wlocals, spawned, prev_counts,
                    last_fetch_max >>

\* lines 86-93: break on completion, otherwise call park.
ObsCheck ==
    /\ mpc = "check"
    /\ mpc' = IF IsComplete(current_done) THEN "done" ELSE "park"
    /\ UNCHANGED << off_tracker, sizes, unparks, shared, parking, wlocals, spawned, current_done,
                    main_view, obs_gap, prev_counts, last_fetch_max, obs_hist >>

\* Faulty variant of ObsParkReturn: the token is consumed without acquiring
\* what the unparking threads released.
ObsParkReturnNoSync ==
    /\ mpc = "park"
    /\ token
    /\ token' = FALSE
    /\ token_view' = 0
    /\ wakes_pending' = 0
    /\ mpc' = "load"
    /\ park_cause' = "token"
    /\ UNCHANGED << off_tracker, sizes, unparks, shared, wlocals, spawned, current_done, main_view,
                    obs_gap, prev_counts, last_fetch_max, since_load,
                    wake_after_load >>

\* line 91: park returns by consuming the token; this synchronizes with the
\* unpark calls that made it available.
ObsParkReturn ==
    /\ mpc = "park"
    /\ token
    /\ token' = FALSE
    /\ main_view' = Max(main_view, token_view)
    /\ token_view' = 0
    /\ wakes_pending' = 0
    /\ mpc' = "load"
    /\ park_cause' = "token"
    /\ UNCHANGED << off_tracker, sizes, unparks, shared, wlocals, spawned, current_done, obs_gap,
                    prev_counts, last_fetch_max, since_load, wake_after_load >>

\* Faulty variant of ObsParkSpurious: the return of park is taken as the
\* signal that everything is processed.
ObsParkSpuriousBreaks ==
    /\ mpc = "park"
    /\ ~token
    /\ mpc' = "done"
    /\ park_cause' = "spurious"
    /\ UNCHANGED << off_tracker, sizes, unparks, shared, parking, wlocals, spawned, current_done,
                    main_view, obs_gap, prev_counts, last_fetch_max, since_load,
                    wake_after_load >>

\* line 91: park may also return spuriously, with no token to consume.
ObsParkSpurious ==
    /\ mpc = "park"
    /\ ~token
    /\ mpc' = "load"
    /\ park_cause' = "spurious"
    /\ UNCHANGED << off_tracker, sizes, unparks, shared, parking, wlocals, spawned, current_done,
                    main_view, obs_gap, prev_counts, last_fetch_max, since_load,
                    wake_after_load >>

AllWorkersEnded == \A t \in Workers : wpc[t] \in {"done", "panicked"}

\* Faulty variant of ScopeEnd: the scope returns without joining the workers.
ScopeEndNoJoin ==
    /\ mpc = "done"
    /\ mpc' = "scope_end"
    /\ UNCHANGED << off_tracker, sizes, unparks, shared, parking, wlocals, spawned, current_done,
                    main_view, obs_gap, prev_counts, last_fetch_max, obs_hist >>

\* line 95: thread::scope returns once every spawned thread has been joined.
ScopeEnd ==
    /\ mpc = "done"
    /\ AllWorkersEnded
    /\ mpc' = "scope_end"
    /\ UNCHANGED << off_tracker, sizes, unparks, shared, parking, wlocals, spawned, current_done,
                    main_view, obs_gap, prev_counts, last_fetch_max, obs_hist >>

Observer == ObsLoad \/ ObsCheck \/ ObsParkReturn

Next ==
    \/ Spawn
    \/ \E t \in Workers : WFetchAdd(t)
    \/ \E t \in Workers : WDiff(t)
    \/ \E t \in Workers : WUnpark(t)
    \/ ObsLoad
    \/ ObsCheck
    \/ ObsParkReturn
    \/ ObsParkSpurious
    \/ ScopeEnd

Spec == Init /\ [][Next]_vars

\* Every thread that can run is eventually scheduled; a spurious return of
\* park is allowed but never owed.
Fairness ==
    /\ WF_vars(Spawn)
    /\ \A t \in 0 .. (NUM_THREADS - 1) : WF_vars(t \in Workers /\ Worker(t))
    /\ WF_vars(Observer)
    /\ WF_vars(ScopeEnd)

FairSpec == Spec /\ Fairness

\* The single-worker runs, fairly scheduled.
SingleFairSpec == InitSingle /\ [][Next]_vars /\ Fairness

\* Only the spawning loop and the workers are scheduled; the observer loop
\* may never take a step.
WorkerFairSpec ==
    /\ Spec
    /\ WF_vars(Spawn)
    /\ \A t \in 0 .. (NUM_THREADS - 1) : WF_vars(t \in Workers /\ Worker(t))

\* ============================================================ properties
Range(f) == { f[i] : i \in DOMAIN f }

RECURSIVE SumLen(_)
SumLen(S) == IF S = {} THEN 0
             ELSE LET t == CHOOSE x \in S : TRUE
                  IN  Len(prev_counts[t]) + SumLen(S \ {t})

\* number of fetch_add calls executed so far
NumCalls == SumLen(Workers)

\* the values returned by all fetch_add calls so far
ReturnedSet == UNION { Range(prev_counts[t]) : t \in Workers }

AllWorkersDone == \A t \in Workers : wpc[t] = "done"
ObserverComplete == mpc \in {"done", "scope_end"}

\* the distances between consecutive results of one worker, the first from 0
WorkerGaps(t) ==
    { prev_counts[t][i] - (IF i = 1 THEN 0 ELSE prev_counts[t][i - 1])
        : i \in 1 .. Len(prev_counts[t]) }

SetMax(S) == IF S = {} THEN 0 ELSE CHOOSE m \in S : \A x \in S : x <= m

MaxWorkerGap == SetMax(UNION { WorkerGaps(t) : t \in Workers })

\* ---- C1
\* C1 (gaplessness): at every moment the values returned by the n fetch_add
\* calls executed so far are exactly 0 .. n-1, each returned once, and when
\* all workers have finished n = NUM_THREADS * ADDS_PER_THREAD.
Gapless ==
    /\ ReturnedSet = 0 .. (NumCalls - 1)
    /\ Cardinality(ReturnedSet) = NumCalls
    /\ AllWorkersDone => NumCalls = Total

\* all calls made, and the workers' calls interleaved
GaplessWitness ==
    /\ AllWorkersDone
    /\ NumCalls = Total
    /\ \E t \in Workers : prev_counts[t][2] - prev_counts[t][1] > 1

\* ---- C2
\* C2 (completion liveness): under fair scheduling of workers and observer
\* the observer eventually takes the "All items processed" branch.
EventuallyComplete == <>(mpc = "done")

\* completion reached by a park that the final unpark ended
CompleteAfterPark ==
    /\ mpc = "scope_end"
    /\ current_done = Total
    /\ ~token

\* ---- C3
\* C3: no more than Total fetch_add calls are ever made and exactly Total
\* once the workers have finished; the observer never reads more than Total
\* and has left its loop only with a read equal to Total.
CompleteOnlyAtTotal ==
    /\ NumCalls <= Total
    /\ AllWorkersEnded => NumCalls = Total
    /\ current_done <= Total
    /\ ObserverComplete => current_done = Total /\ atomic_num_done = Total

\* completion declared while a worker has not yet ended
CompleteBeforeWorkersEnd ==
    /\ mpc = "done"
    /\ current_done = Total
    /\ \E t \in Workers : wpc[t] # "done"

\* ---- C4
\* C4 (counter invariant): always 0 <= counter <= Total and counter = number
\* of fetch_add calls executed; every step leaves it unchanged or adds 1.
CounterInvariant ==
    /\ [](atomic_num_done >= 0 /\ atomic_num_done <= Total
            /\ atomic_num_done = NumCalls)
    /\ [][atomic_num_done' = atomic_num_done
            \/ atomic_num_done' = atomic_num_done + 1]_vars

CounterAtTotal == atomic_num_done = Total /\ NumCalls = Total

\* ---- C5
\* C5 (monotonicity): each value the observer loads is >= the value it
\* loaded on the previous iteration.
ObserverReadsMonotonic == [][current_done' >= current_done]_vars

\* the observer has loaded at least twice, the later value larger
TwoIncreasingReads == current_done > obs_gap /\ obs_gap > 0

\* ---- C6
\* C6 (no wake loss): wakes sent since the last park return are held as one
\* token; a parked observer with several wakes pending does not stay so:
\* the only step out of that state is one park return, with none pending,
\* to the re-read; surplus wakes never keep the run from completing.
NoWakeLoss ==
    /\ [](wakes_pending >= 1 => token)
    /\ [][((mpc = "park" /\ wakes_pending >= 2) /\ ~(mpc' = "park" /\ wakes_pending' >= 2))
            => (mpc' = "load" /\ wakes_pending' = 0 /\ ~token')]_vars
    /\ []<>~(mpc = "park" /\ wakes_pending >= 2)
    /\ <>[]ObserverComplete

\* several wakes pending on a parked observer, the counter unchanged since
\* its last read
CoalescedWakes ==
    /\ mpc = "park"
    /\ wakes_pending >= 2
    /\ token
    /\ current_done = atomic_num_done

MaxDiffMonotone ==
    /\ atomic_max_diff = 0
    /\ [](atomic_max_diff >= 0)
    /\ [][/\ atomic_max_diff' >= atomic_max_diff
          /\ atomic_max_diff' # atomic_max_diff =>
                /\ last_fetch_max'.old = atomic_max_diff
                /\ atomic_max_diff' = Max(last_fetch_max'.old, last_fetch_max'.arg)]_vars

\* a fetch_max whose argument was below the current value
FetchMaxBelowCurrent ==
    /\ last_fetch_max.arg > 0
    /\ last_fetch_max.arg < last_fetch_max.old
    /\ atomic_max_diff >= last_fetch_max.old

\* ---- C9
\* C9 (reporting never blocks): a worker that has a step left can always take
\* it, whatever the observer and the other workers are doing, and with only
\* the workers scheduled every worker finishes all its reports.
ReportNeverBlocks ==
    /\ [](\A t \in Workers :
            /\ wpc[t] = "fetch_add" => ENABLED WFetchAdd(t)
            /\ wpc[t] = "diff" => ENABLED WDiff(t)
            /\ wpc[t] = "unpark" => ENABLED WUnpark(t))
    /\ <>AllWorkersDone

\* all reports made while the observer has not read anything
WorkersDoneObserverIdle ==
    /\ AllWorkersDone
    /\ mpc = "load"
    /\ main_view = 0
    /\ wakes_pending = Total

\* ---- C10
\* C10: the expect() never panics: every fetch_add result a worker receives is
\* >= its previous one (0 before the first), so checked_sub never yields None.
NeverPanics ==
    \A t \in Workers :
        /\ wpc[t] # "panicked"
        /\ wpc[t] = "diff" => incoming_counter_value[t] >= last_counter_value[t]
        /\ \A i \in 1 .. Len(prev_counts[t]) :
              prev_counts[t][i] >= (IF i = 1 THEN 0 ELSE prev_counts[t][i - 1])

\* a worker about to subtract after another worker's increments came between
SubtractAcrossGap ==
    \E t \in Workers :
        /\ wpc[t] = "diff"
        /\ Len(prev_counts[t]) >= 2
        /\ incoming_counter_value[t] > last_counter_value[t] + 1

\* ---- C11
ObsLoadStep == mpc = "load" /\ mpc' = "check"

\* C11: the observer leaves its loop only from the test of line 86 with a read
\* >= Total; whatever made park return, the observer loads again, and parks
\* again while its read is below Total; with spurious returns allowed the
\* observer still never completes early and the run still completes.
SpuriousTolerated ==
    /\ [][mpc' = "done" /\ mpc # "done" => mpc = "check" /\ current_done >= Total]_vars
    /\ [][mpc = "park" /\ mpc' # "park" => mpc' = "load"]_vars
    /\ [][mpc = "check" /\ mpc' # "check" /\ current_done < Total => mpc' = "park"]_vars
    /\ [](ObserverComplete => current_done = Total)
    /\ (park_cause = "spurious") ~> (mpc = "done")

\* park has returned although no worker has reported, let alone unparked
SpuriousBeforeAnyWake ==
    /\ park_cause = "spurious"
    /\ mpc = "load"
    /\ atomic_num_done = 0
    /\ wakes_pending = 0

\* ---- C12
\* C12: the scope has returned only when every worker has run to its end and
\* the observer has read Total; after that no step changes the counters, the
\* park token or any worker.
ScopeOutlivesWorkers ==
    /\ [](mpc = "scope_end" =>
            /\ AllWorkersDone
            /\ \A t \in Workers : iter[t] = adds_per_thread
            /\ current_done = Total)
    /\ [][mpc = "scope_end" =>
            UNCHANGED << atomic_num_done, atomic_max_diff, token, wpc, iter >>]_vars

\* the scope has returned; the last unpark was never consumed
ScopeReturned ==
    /\ mpc = "scope_end"
    /\ AllWorkersDone
    /\ wakes_pending >= 1

\* ---- C13
\* C13 as stated (idempotent read): a load that follows another load with no
\* fetch_add executed in between returns the same value, and a load changes
\* neither the counter nor the max-diff value.
IdempotentRead ==
    /\ [][ObsLoadStep /\ since_load \in {"quiet", "requiet"} =>
            current_done' = current_done]_vars
    /\ [][ObsLoadStep => UNCHANGED << atomic_num_done, atomic_max_diff >>]_vars

\* C13 as amended: a load changes neither the counter nor the max-diff value
\* and never returns more than the counter holds; a load that follows another
\* load with no fetch_add executed in between returns a value >= the earlier
\* one, and the same value whenever the earlier load returned the counter's
\* current value.
IdempotentReadWhenCurrent ==
    /\ [][ObsLoadStep =>
            /\ UNCHANGED << atomic_num_done, atomic_max_diff >>
            /\ current_done' <= atomic_num_done]_vars
    /\ [][ObsLoadStep /\ since_load \in {"quiet", "requiet"} =>
            /\ current_done' >= current_done
            /\ current_done = atomic_num_done => current_done' = current_done]_vars

\* two loads in a row with no fetch_add between them, both of the current value
QuietReload ==
    /\ mpc = "check"
    /\ since_load = "requiet"
    /\ current_done = atomic_num_done
    /\ current_done > 0

\* ---- C14
\* C14: with a single worker making U reports the values returned are 0, 1,
\* ..., in call order, U of them and the counter at U when the worker is done
\* (for U = 3: (0, 1, 2) and 3); the observer completes, only with the counter
\* at U, and once complete stays complete.
SingleWorkerSequence ==
    /\ [](num_threads = 1)
    /\ [](prev_counts[0] = [i \in 1 .. Len(prev_counts[0]) |-> i - 1])
    /\ [](wpc[0] = "done" =>
            /\ Len(prev_counts[0]) = adds_per_thread
            /\ atomic_num_done = adds_per_thread)
    /\ [](wpc[0] = "done" /\ adds_per_thread = 3 =>
            prev_counts[0] = << 0, 1, 2 >> /\ atomic_num_done = 3)
    /\ [](ObserverComplete =>
            atomic_num_done = adds_per_thread /\ current_done = adds_per_thread)
    /\ [][ObserverComplete => ObserverComplete']_vars
    /\ <>ObserverComplete

\* the concrete case: one worker, three reports, run ended
SingleWorkerThreeDone ==
    /\ num_threads = 1
    /\ adds_per_thread = 3
    /\ mpc = "scope_end"
    /\ prev_counts[0] = << 0, 1, 2 >>
    /\ atomic_num_done = 3

\* ---- C20
\* the worker that received Total - 1 has issued the unpark that follows it
FinalUnparkDone ==
    \E t \in Workers :
        /\ Len(prev_counts[t]) > 0
        /\ prev_counts[t][Len(prev_counts[t])] = Total - 1
        /\ iter[t] = Len(prev_counts[t])

\* C20: an unpark issued after the observer's load and before its park leaves
\* the token in place, so park returns at once by consuming it and the observer
\* loads again; after the unpark that follows the final fetch_add the
\* observer's next load can only return Total, and it completes.
WakeBeforeParkKept ==
    /\ [](mpc \in {"check", "park"} /\ wake_after_load => token)
    /\ [](mpc = "park" /\ token => ENABLED ObsParkReturn /\ ~ENABLED ObsParkSpurious)
    /\ (mpc \in {"check", "park"} /\ current_done < Total /\ wake_after_load)
          ~> (mpc = "load" /\ park_cause = "token")
    /\ [](FinalUnparkDone /\ ~ObserverComplete =>
            \/ token /\ token_view = Total
            \/ main_view = Total)
    /\ FinalUnparkDone ~> (ObserverComplete /\ current_done = Total)

\* the final unpark came after a load below Total and before the park
FinalWakeInWindow ==
    /\ mpc = "park"
    /\ current_done < Total
    /\ wake_after_load
    /\ token
    /\ FinalUnparkDone

\* ---- C21
\* C21: every increment is followed by one wake from the same worker: a
\* worker's unpark calls never outnumber its fetch_add calls and trail them by
\* at most one; each unpark comes after the increment it announces and makes
\* the token available; the worker makes its next fetch_add, or ends, only
\* when every increment has had its unpark; and under fair scheduling of the
\* workers every increment is followed by its unpark (again and again the
\* worker has made as many unpark calls as increments).
WakeFollowsIncrement ==
    /\ [](\A t \in Workers :
            /\ unparks[t] <= Len(prev_counts[t])
            /\ Len(prev_counts[t]) <= unparks[t] + 1
            /\ (wpc[t] = "done" =>
                    unparks[t] = adds_per_thread /\ Len(prev_counts[t]) = adds_per_thread))
    /\ [][\A t \in Workers :
            /\ (Len(prev_counts'[t]) # Len(prev_counts[t]) =>
                    unparks[t] = Len(prev_counts[t]))
            /\ (unparks'[t] # unparks[t] =>
                    /\ unparks'[t] = unparks[t] + 1
                    /\ Len(prev_counts[t]) = unparks'[t]
                    /\ token')]_vars
    /\ \A t \in 0 .. (NUM_THREADS - 1) :
            []<>(unparks[t] = Len(prev_counts[t]))

\* every worker has ended with as many wakes as increments, and several of
\* the wakes are still waiting for the observer
EveryIncrementAnnounced ==
    /\ AllWorkersDone
    /\ \A t \in Workers : unparks[t] = adds_per_thread
    /\ wakes_pending >= 2
    /\ mpc = "park"

\* ---- C22
\* C22 as stated: once the observer has seen the count complete and made its
\* final read of the max-diff (lines 86-89), no worker raises the max-diff.
NoRaiseAfterFinalRead ==
    [][(mpc \in {"done", "scope_end"}) => (atomic_max_diff' = atomic_max_diff)]_vars

\* C22 amended: after the observer's final read the max-diff never decreases
\* and can still be raised, but only by a worker that has made its last
\* fetch_add and not yet the fetch_max of that iteration; once every worker
\* has ended it no longer changes, and at the end of the scope it is the
\* largest worker gap.  The value reported at completion is a lower bound of
\* the final value.
LateRaiseOnlyByLastReporter ==
    /\ [][(mpc \in {"done", "scope_end"}) /\ atomic_max_diff' # atomic_max_diff =>
            (/\ atomic_max_diff' > atomic_max_diff
             /\ \E t \in Workers :
                   /\ wpc[t] = "diff" /\ wpc'[t] = "unpark"
                   /\ iter[t] = adds_per_thread - 1
                   /\ atomic_max_diff' =
                          incoming_counter_value[t] - last_counter_value[t])]_vars
    /\ [][AllWorkersEnded => (atomic_max_diff' = atomic_max_diff)]_vars
    /\ [](mpc = "scope_end" => atomic_max_diff = MaxWorkerGap)

\* the observer has made its final read while a worker is about to raise the
\* max-diff
PendingRaiseAtCompletion ==
    /\ mpc = "done"
    /\ \E t \in Workers :
          /\ wpc[t] = "diff"
          /\ incoming_counter_value[t] - last_counter_value[t] > atomic_max_diff
          /\ incoming_counter_value[t] - last_counter_value[t] > max_diff[t]

\* ---- C23
\* C23: after all workers have finished the shared max-diff equals the
\* largest local max_diff, each local max_diff being the largest distance
\* between consecutive fetch_add results of that worker (the first measured
\* from 0); it is at most Total - 1 and at least 1 when Total >= 2.
MaxDiffIsLargestLocal ==
    AllWorkersDone =>
        /\ atomic_max_diff = SetMax({ max_diff[t] : t \in Workers })
        /\ \A t \in Workers : max_diff[t] = SetMax(WorkerGaps(t))
        /\ atomic_max_diff <= Total - 1
        /\ (Total >= 2 => atomic_max_diff >= 1)

\* the largest possible distance: one worker received 0 and then Total - 1
MaxDiffAtUpperBound ==
    /\ AllWorkersDone
    /\ atomic_max_diff = Total - 1
    /\ \E t \in Workers : max_diff[t] < atomic_max_diff

\* ---- C24
\* C24: the max-diff is not used for control flow: a step that changes it
\* changes neither the completion counter nor the token nor the observer;
\* the observer leaves its test for "done" exactly when the count it loaded
\* is complete and for park otherwise, and leaves park only to load again;
\* each worker goes fetch_add, bookkeeping, unpark and then to the next
\* iteration or its end by its own iteration count alone.
MaxDiffNotInControl ==
    /\ [][atomic_max_diff' # atomic_max_diff =>
            (/\ atomic_num_done' = atomic_num_done
             /\ token' = token
             /\ mpc' = mpc
             /\ current_done' = current_done
             /\ iter' = iter)]_vars
    /\ [][mpc = "check" /\ mpc' # mpc =>
            (mpc' = IF current_done >= Total THEN "done" ELSE "park")]_vars
    /\ [][mpc = "park" /\ mpc' # mpc => (mpc' = "load")]_vars
    /\ [][\A t \in Workers :
            /\ (wpc[t] = "fetch_add" /\ wpc'[t] # wpc[t] =>
                    wpc'[t] = "diff" /\ atomic_num_done' = atomic_num_done + 1)
            /\ (wpc[t] = "diff" /\ wpc'[t] # wpc[t] =>
                    wpc'[t] = IF incoming_counter_value[t] >= last_counter_value[t]
                              THEN "unpark" ELSE "panicked")
            /\ (wpc[t] = "unpark" /\ wpc'[t] # wpc[t] =>
                    wpc'[t] = IF iter[t] + 1 < adds_per_thread THEN "fetch_add" ELSE "done")]_vars

\* the max-diff has been raised to its largest value while the count is not
\* complete and the observer waits in park
MaxDiffRaisedObserverParked ==
    /\ mpc = "park"
    /\ atomic_num_done < Total
    /\ atomic_max_diff >= 2
    /\ last_fetch_max.arg > last_fetch_max.old

\* ================================================================ atomic.rs
\* the number of lines that do not end the loop is bounded for checking
MaxLines == 4

\* "quit" and "" stand for every line that is neither "help" nor "stop"
Lines == {"help", "stop", "quit", ""}

off_stop == << tracker_vars, hv_vars, cas_vars, pq_vars, mx_vars, ol_vars >>

\* line 11: thread::spawn
StopSpawn ==
    /\ stop_main = "spawn"
    /\ stop_main' = "read"
    /\ stop_bg' = "load"
    /\ UNCHANGED << off_stop, stop_line, STOP, bg_sees, lines_read, stop_out, stop_writes >>

\* Faulty variant of MainReadLine: every line that is not "help" ends the loop.
MainReadLineQuits ==
    /\ stop_main = "read"
    /\ \E line \in Lines :
          /\ stop_line' = line
          /\ CASE line = "help" ->
                     /\ lines_read < MaxLines
                     /\ stop_out' = "help"
                     /\ lines_read' = lines_read + 1
                     /\ stop_main' = "read"
               [] OTHER ->
                     /\ stop_main' = "store"
                     /\ lines_read' = lines_read
                     /\ stop_out' = stop_out
    /\ UNCHANGED << off_stop, STOP, stop_bg, bg_sees, stop_writes >>

\* lines 19-24: one line of stdin, matched
MainReadLine ==
    /\ stop_main = "read"
    /\ \E line \in Lines :
          /\ stop_line' = line
          /\ CASE line = "help" ->
                     /\ lines_read < MaxLines
                     /\ stop_out' = "help"
                     /\ lines_read' = lines_read + 1
                     /\ stop_main' = "read"
               [] line = "stop" ->
                     /\ stop_main' = "store"
                     /\ lines_read' = lines_read
                     /\ stop_out' = stop_out
               [] OTHER ->
                     /\ lines_read < MaxLines
                     /\ stop_out' = "unknown"
                     /\ lines_read' = lines_read + 1
                     /\ stop_main' = "read"
    /\ UNCHANGED << off_stop, STOP, stop_bg, bg_sees, stop_writes >>

\* line 19: stdin is at its end, the for loop is over
MainEof ==
    /\ stop_main = "read"
    /\ stop_main' = "store"
    /\ stop_line' = "<eof>"
    /\ UNCHANGED << off_stop, STOP, stop_bg, bg_sees, lines_read, stop_out, stop_writes >>

\* line 20: the read failed and line.unwrap() panics; the process ends
MainReadErr ==
    /\ stop_main = "read"
    /\ stop_main' = "panicked"
    /\ stop_line' = "<err>"
    /\ UNCHANGED << off_stop, STOP, stop_bg, bg_sees, lines_read, stop_out, stop_writes >>

\* line 26: STOP.store(true, Relaxed)
MainStore ==
    /\ stop_main = "store"
    /\ STOP' = TRUE
    /\ stop_writes' = Append(stop_writes, "main")
    /\ stop_main' = "join"
    /\ UNCHANGED << off_stop, stop_line, stop_bg, bg_sees, lines_read, stop_out >>

\* line 27: background_thread.join().unwrap()
MainJoin ==
    /\ stop_main = "join"
    /\ stop_bg = "stopped"
    /\ stop_main' = "exit"
    /\ UNCHANGED << off_stop, stop_line, STOP, stop_bg, bg_sees, lines_read, stop_out, stop_writes >>

\* a Relaxed store becomes visible to the other thread after some time
StopVisible ==
    /\ STOP
    /\ ~bg_sees
    /\ bg_sees' = TRUE
    /\ UNCHANGED << off_stop, stop_line, STOP, stop_main, stop_bg, lines_read, stop_out, stop_writes >>

BgRunning == stop_main \notin {"panicked", "exit"}

\* Faulty variant of BgLoad: the background thread clears the flag it has seen.
BgLoadClears ==
    /\ BgRunning
    /\ stop_bg = "load"
    /\ stop_bg' = IF STOP /\ bg_sees THEN "print" ELSE "sleep"
    /\ STOP' = IF STOP /\ bg_sees THEN FALSE ELSE STOP
    /\ stop_writes' = IF STOP /\ bg_sees THEN Append(stop_writes, "background")
                      ELSE stop_writes
    /\ UNCHANGED << off_stop, stop_line, stop_main, bg_sees, lines_read, stop_out >>

\* Faulty variant of BgLoad: the loop condition without its negation.
BgLoadInverted ==
    /\ BgRunning
    /\ stop_bg = "load"
    /\ stop_bg' = IF STOP /\ bg_sees THEN "sleep" ELSE "print"
    /\ UNCHANGED << off_stop, stop_line, STOP, stop_main, bg_sees, lines_read, stop_out,
                    stop_writes >>

\* line 12: while !STOP.load(Relaxed)
BgLoad ==
    /\ BgRunning
    /\ stop_bg = "load"
    /\ stop_bg' = IF STOP /\ bg_sees THEN "print" ELSE "sleep"
    /\ UNCHANGED << off_stop, stop_line, STOP, stop_main, bg_sees, lines_read, stop_out, stop_writes >>

\* line 13: thread::sleep(100 ms)
BgSleep ==
    /\ BgRunning
    /\ stop_bg = "sleep"
    /\ stop_bg' = "load"
    /\ UNCHANGED << off_stop, stop_line, STOP, stop_main, bg_sees, lines_read, stop_out, stop_writes >>

\* line 15: println!, end of the closure
BgPrint ==
    /\ BgRunning
    /\ stop_bg = "print"
    /\ stop_bg' = "stopped"
    /\ UNCHANGED << off_stop, stop_line, STOP, stop_main, bg_sees, lines_read, stop_out, stop_writes >>

StopNext ==
    \/ StopSpawn
    \/ MainReadLine
    \/ MainEof
    \/ MainReadErr
    \/ MainStore
    \/ MainJoin
    \/ StopVisible
    \/ BgLoad
    \/ BgSleep
    \/ BgPrint

\* atomic.rs alone
InitStop ==
    /\ TrackerIdle
    /\ HvIdle
    /\ OthersIdle
    /\ StopInit

StopSpec == InitStop /\ [][StopNext]_vars

\* ---- C15
\* C15: STOP starts false; the only store to it is main's store of true, made
\* once, after the input loop has ended; the background thread never stores
\* to it; once true it stays true.
StopWrittenOnce ==
    /\ STOP = FALSE
    /\ [][STOP => STOP']_vars
    /\ [][STOP' # STOP \/ stop_writes' # stop_writes =>
            /\ stop_main = "store" /\ stop_main' = "join"
            /\ STOP'
            /\ stop_writes' = << "main" >>]_vars
    /\ [](stop_main \in {"join", "exit"} => STOP /\ stop_writes = << "main" >>)
    /\ [](stop_main \in {"spawn", "read", "store", "panicked"} =>
            ~STOP /\ stop_writes = << >>)

\* the loop ended after some commands, the flag was stored and seen, main joined
StopRunEnded ==
    /\ stop_main = "exit"
    /\ stop_bg = "stopped"
    /\ STOP
    /\ lines_read >= 1
    /\ stop_writes = << "main" >>

\* The store becomes visible, the background thread and a main that can act
\* are scheduled; nothing obliges stdin to deliver a line.
StopFairSpec ==
    /\ StopSpec
    /\ WF_vars(StopVisible)
    /\ WF_vars(BgLoad)
    /\ WF_vars(BgSleep)
    /\ WF_vars(BgPrint)
    /\ WF_vars(MainStore)
    /\ WF_vars(MainJoin)

\* ---- C25
\* C25: the background thread leaves its polling loop only by a load that
\* returned true, so it has not ended while STOP is false; and once main has
\* stored true the background thread eventually sees it and ends, and main's
\* join returns.
StopProtocol ==
    /\ [][stop_bg = "load" /\ stop_bg' # "load" =>
            (IF STOP /\ bg_sees THEN stop_bg' = "print" ELSE stop_bg' = "sleep")]_vars
    /\ [](~STOP => stop_bg \in {"unspawned", "load", "sleep"})
    /\ [](stop_main = "exit" => stop_bg = "stopped")
    /\ (STOP ~> (stop_bg = "stopped" /\ stop_main = "exit"))

\* main stored true without reading any command, the background thread saw
\* it and the join returned
StopJoined ==
    /\ stop_main = "exit"
    /\ stop_bg = "stopped"
    /\ bg_sees
    /\ stop_line = "<eof>"
    /\ lines_read = 0

\* ---- C26
\* C26 as stated: the command loop is left only after the line "stop" or at
\* the end of input, "help" and unrecognised lines keep it running with STOP
\* false, and STOP is true after every way out of the loop.
LoopEndsOnlyByStopOrEof ==
    /\ [][stop_main = "read" /\ stop_main' # "read" =>
            (stop_line' \in {"stop", "<eof>"})]_vars
    /\ [][stop_main = "read" /\ stop_line' \in Lines \ {"stop"} =>
            (stop_main' = "read" /\ ~STOP')]_vars
    /\ [](stop_main \notin {"spawn", "read", "store"} => STOP)

\* C26 amended: the command loop is left after the line "stop", at the end of
\* input, or by the panic of line.unwrap() when reading a line fails; "help"
\* and unrecognised lines keep it running with STOP false; after "stop" and
\* at the end of input the next step of main stores true to STOP, while the
\* panic leaves STOP false.
LoopEndsByStopEofOrPanic ==
    /\ [][stop_main = "read" /\ stop_main' # "read" =>
            (\/ stop_main' = "store" /\ stop_line' \in {"stop", "<eof>"}
             \/ stop_main' = "panicked" /\ stop_line' = "<err>")]_vars
    /\ [][stop_main = "read" /\ stop_line' \in Lines \ {"stop"} =>
            (stop_main' = "read" /\ ~STOP')]_vars
    /\ [][stop_main = "store" /\ stop_main' # "store" =>
            (stop_main' = "join" /\ STOP')]_vars
    /\ [](stop_main \in {"join", "exit"} => STOP)
    /\ [](stop_main = "panicked" => ~STOP /\ stop_line = "<err>")

\* a failed read after some commands: the loop is left with STOP false
LoopLeftByPanic ==
    /\ stop_main = "panicked"
    /\ lines_read >= 2
    /\ stop_out = "unknown"
    /\ ~STOP

\* ========================================================== hidden_value.rs
\* strings are bounded for checking
MaxStrLen == 2
MaxReveal == 3

\* "x": one byte in UTF-8; "gamma": two bytes
Chars == {"x", "gamma"}

Strings == UNION {[1 .. n -> Chars] : n \in 0 .. MaxStrLen}

Values == {StringValue(s) : s \in Strings} \cup {IntValue(n) : n \in {0, 7}}

OptStrings == {None} \cup {Some(s) : s \in Strings}

RevealLens == {NoLen} \cup {SomeLen(n) : n \in 1 .. MaxReveal}

\* char::len_utf8
Utf8Len(c) == IF c = "gamma" THEN 2 ELSE 1

\* str::len: the length in bytes
RECURSIVE ByteLen(_)
ByteLen(s) == IF s = << >> THEN 0 ELSE Utf8Len(Head(s)) + ByteLen(Tail(s))

\* str::chars().count(): the length in characters
CharLen(s) == Len(s)

\* value.chars().skip(k).collect::<String>()
CharsSkip(s, k) == IF k >= Len(s) THEN << >> ELSE SubSeq(s, k + 1, Len(s))

\* the last n characters of s
LastChars(s, n) == IF n >= Len(s) THEN s ELSE SubSeq(s, Len(s) - n + 1, Len(s))

\* lines 113-130: dotenv() adds the file's keys the environment lacks, then env::var
EnvLookup(env, dotenv, load_env_file) ==
    IF env.some THEN env
    ELSE IF load_env_file THEN dotenv
    ELSE None

\* lines 179-198: HiddenValue::new (builder().value(..).maybe_obf_string(..).build())
New(value, obf_string) == Ok(value, obf_string)

\* lines 132-149: the masked string, then the builder
NewFromEnv(found, reveal_len) ==
    IF ~found.some THEN Err("EnvVar", 0, 0)
    ELSE IF reveal_len.some
         THEN IF ByteLen(found.v) <= reveal_len.n
              THEN Err("RevealLengthTooLong", reveal_len.n, ByteLen(found.v))
              ELSE New(StringValue(found.v),
                       Some(CharsSkip(found.v, ByteLen(found.v) - reveal_len.n)))
         ELSE New(StringValue(found.v), None)

\* the literal pieces of the format strings of lines 81-82
FmtHead ==
    << "H", "i", "d", "d", "e", "n", "V", "a", "l", "u", "e", " ", "{", " ",
       "R", "E", "D", "A", "C", "T", "E", "D" >>
FmtNone == FmtHead \o << " ", "}" >>
FmtOpen == FmtHead \o << ".", ".", "\"" >>
FmtClose == << "\"", " ", "}" >>

\* Faulty variant of DebugFmt: what #[derive(Debug)] would print for a String.
DebugFmtDerived(hidden) ==
    << "H", "i", "d", "d", "e", "n", "V", "a", "l", "u", "e", " ", "{", " " >>
        \o hidden.value.s \o << " ", "}" >>

\* lines 78-85: impl Debug for HiddenValue
DebugFmt(hidden) ==
    IF hidden.obf_string.some
    THEN FmtOpen \o hidden.obf_string.v \o FmtClose
    ELSE FmtNone

\* Faulty variant of ExposeValue: hands out the masked string when there is one.
ExposeValueMasked(hidden) ==
    IF hidden.obf_string.some THEN StringValue(hidden.obf_string.v) ELSE hidden.value

\* lines 207-212: expose_value
ExposeValue(hidden) == hidden.value

off_hv == << tracker_vars, stop_vars, cas_vars, pq_vars, mx_vars, ol_vars >>
hv_inputs == << hv_mode, hv_value, hv_obf, hv_env, hv_dotenv, hv_load_env_file,
                hv_reveal_len >>

\* the arguments of one constructor call, and the environment it runs in
HvInput ==
    /\ hv_pc = "input"
    /\ hv_mode \in {"new", "from_env"}
    /\ IF hv_mode = "new"
       THEN /\ hv_value \in Values
            /\ hv_obf \in OptStrings
            /\ hv_env = None
            /\ hv_dotenv = None
            /\ hv_load_env_file = FALSE
            /\ hv_reveal_len = NoLen
       ELSE /\ hv_value = StringValue(<< >>)
            /\ hv_obf = None
            /\ hv_env \in OptStrings
            /\ hv_dotenv \in {None, Some(<< "x", "x" >>)}
            /\ hv_load_env_file \in BOOLEAN
            /\ hv_reveal_len \in RevealLens
    /\ hv_result = NoResult
    /\ hv_debug = None
    /\ hv_exposed = NoValue

\* HiddenValue::builder().value(v).maybe_obf_string(o).build()
HvNew ==
    /\ hv_pc = "input"
    /\ hv_mode = "new"
    /\ hv_result' = New(hv_value, hv_obf)
    /\ hv_pc' = "built"
    /\ UNCHANGED << off_hv, hv_inputs, hv_debug, hv_exposed >>

\* HiddenValue::from_env_builder().key(k).load_env_file(b).maybe_reveal_len(n).build()
HvFromEnv ==
    /\ hv_pc = "input"
    /\ hv_mode = "from_env"
    /\ hv_result' = NewFromEnv(EnvLookup(hv_env, hv_dotenv, hv_load_env_file), hv_reveal_len)
    /\ hv_pc' = "built"
    /\ UNCHANGED << off_hv, hv_inputs, hv_debug, hv_exposed >>

\* format!("{:?}", hidden)
HvFmt ==
    /\ hv_pc = "built"
    /\ hv_result.tag = "Ok"
    /\ ~hv_debug.some
    /\ hv_debug' = Some(DebugFmt(hv_result))
    /\ UNCHANGED << off_hv, hv_inputs, hv_pc, hv_result, hv_exposed >>

\* hidden.expose_value()
HvExpose ==
    /\ hv_pc = "built"
    /\ hv_result.tag = "Ok"
    /\ ~hv_exposed.some
    /\ hv_exposed' = SomeValue(ExposeValue(hv_result))
    /\ UNCHANGED << off_hv, hv_inputs, hv_pc, hv_result, hv_debug >>

HvNext ==
    \/ HvNew
    \/ HvFromEnv
    \/ HvFmt
    \/ HvExpose

\* hidden_value.rs alone
InitHv ==
    /\ TrackerIdle
    /\ StopInit
    /\ OthersIdle
    /\ HvInput

HvSpec == InitHv /\ [][HvNext]_vars

\* hay holds needle as a contiguous run of characters
Contains(hay, needle) ==
    \E i \in 1 .. (Len(hay) - Len(needle) + 1) :
        SubSeq(hay, i, i + Len(needle) - 1) = needle

\* the value the constructor was called on
HvGiven == IF hv_mode = "new" THEN hv_value
           ELSE StringValue(EnvLookup(hv_env, hv_dotenv, hv_load_env_file).v)

\* ---- C16
\* C16 as stated: the Debug rendering never contains the wrapped value (a
\* non-empty string), and it is exactly 'HiddenValue { REDACTED }' without an
\* obfuscation string and 'HiddenValue { REDACTED.."<obf>" }' with one.
DebugNeverHoldsValue ==
    hv_debug.some =>
        /\ (HvGiven.ty = "String" /\ HvGiven.s # << >> =>
                ~Contains(hv_debug.v, HvGiven.s))
        /\ hv_debug.v = IF hv_result.obf_string.some
                        THEN FmtOpen \o hv_result.obf_string.v \o FmtClose
                        ELSE FmtNone

\* C16 amended: the Debug rendering is a function of the obfuscation string
\* alone: 'HiddenValue { REDACTED }' without one, 'HiddenValue {
\* REDACTED.."<obf>" }' with one, whatever the value's content or type (new
\* stores the string the caller gives, unchecked, so the rendering holds the
\* value when that string does).
DebugDependsOnObfOnly ==
    hv_debug.some =>
        /\ hv_mode = "new" =>
              hv_debug.v = IF hv_obf.some
                           THEN FmtHead \o << ".", ".", "\"" >> \o hv_obf.v \o << "\"", " ", "}" >>
                           ELSE FmtHead \o << " ", "}" >>
        /\ hv_mode = "from_env" =>
              /\ ~hv_reveal_len.some => hv_debug.v = FmtHead \o << " ", "}" >>
              /\ hv_reveal_len.some =>
                    /\ hv_result.obf_string.some
                    /\ hv_debug.v = FmtHead \o << ".", ".", "\"" >> \o hv_result.obf_string.v
                                           \o << "\"", " ", "}" >>
        /\ (hv_result.obf_string.some /\ HvGiven.ty = "String"
                /\ Contains(hv_result.obf_string.v, HvGiven.s) =>
                Contains(hv_debug.v, HvGiven.s))

\* a value with a multi-byte character rendered next to an obfuscation string
\* that does not hold it
DebugRendered ==
    /\ hv_mode = "new"
    /\ hv_debug.some
    /\ hv_value = StringValue(<< "gamma", "x" >>)
    /\ hv_obf = Some(<< "x" >>)

\* ---- C17
\* C17: building a HiddenValue from any value succeeds, and expose_value
\* returns a value equal to the one given.
RoundTrip ==
    /\ (hv_mode = "new" /\ hv_pc = "built" => hv_result.tag = "Ok")
    /\ (hv_exposed.some => hv_exposed.v = HvGiven)

\* a value with a multi-byte character, built with an obfuscation string and
\* exposed
RoundTripDone ==
    /\ hv_mode = "new"
    /\ hv_exposed.some
    /\ hv_value = StringValue(<< "x", "gamma" >>)
    /\ hv_obf = Some(<< "gamma" >>)

\* ---- C18
\* C18: from an environment variable that is set, with a reveal length the
\* build fails with RevealLengthTooLong when the reveal length is not strictly
\* less than the value's length in characters and succeeds when it is; with
\* no reveal length it succeeds for every value.
RevealLengthValidated ==
    hv_mode = "from_env" /\ hv_pc = "built"
        /\ EnvLookup(hv_env, hv_dotenv, hv_load_env_file).some =>
        IF hv_reveal_len.some
        THEN IF hv_reveal_len.n >= CharLen(HvGiven.s)
             THEN hv_result.tag = "Err" /\ hv_result.err = "RevealLengthTooLong"
             ELSE hv_result.tag = "Ok"
        ELSE hv_result.tag = "Ok"

\* ---- C19
\* C19: built from an environment variable with an accepted reveal length n,
\* the obfuscation string in the Debug output is the last n characters of the
\* value (stated for the n that are less than the value's length in
\* characters, which the documented rule accepts as well).
RevealsLastChars ==
    hv_mode = "from_env" /\ hv_debug.some /\ hv_reveal_len.some
        /\ hv_reveal_len.n < CharLen(HvGiven.s) =>
        hv_debug.v = FmtOpen \o LastChars(HvGiven.s, hv_reveal_len.n) \o FmtClose

\* ===================================== simple-atomic.rs, Compare_&_Exchange
\* the spurious failures of compare_exchange_weak are bounded for checking
MaxSpurious == 1

off_cas == << tracker_vars, stop_vars, hv_vars, pq_vars, mx_vars, ol_vars >>
cas_locals == << cas_calls, current, new_value, previous_value >>
cas_hist == << cas_results, spurious_fails, contended >>

\* Faulty variants of the operators below.
\* the exchange made unconditional (a plain store of current + 1)
CasAlwaysSucceeds(expected, latest) == TRUE
\* new_value off by one
NewValuePlusTwo(cur) == cur + 2
\* the Err arm dropping the observed value
RetryStale(cur, observed_val) == cur

\* compare_exchange_weak(expected, ..) can succeed only when the atomic holds
\* `expected`: a read-modify-write reads the newest value
CasSucceeds(expected, latest) == expected = latest

\* line 106: let new_value = current + 1
NewValue(cur) == cur + 1

\* line 115: Err(observed_val) => current = observed_val
RetryValue(cur, observed_val) == observed_val

\* lines 123-124: main spawns thread `cas_spawned`; after the last one the
\* scope waits for all of them
CasSpawn ==
    /\ cas_main = "spawn"
    /\ cas_spawned < CAS_THREADS
    /\ cas_pc' = [cas_pc EXCEPT ![cas_spawned] = "load"]
    /\ cas_spawned' = cas_spawned + 1
    /\ cas_main' = IF cas_spawned + 1 = CAS_THREADS THEN "join" ELSE "spawn"
    /\ UNCHANGED << off_cas, atomic_num, no_non_one_diffs, cas_locals, cas_view, cas_hist >>

\* lines 127, 102: plus_just_one is entered; atomic_num.load(Relaxed)
CasLoad(t) ==
    /\ cas_pc[t] = "load"
    /\ \E v \in LoadChoices(cas_view[t], atomic_num) :
          /\ current' = [current EXCEPT ![t] = v]
          /\ cas_view' = [cas_view EXCEPT ![t] = v]
    /\ cas_pc' = [cas_pc EXCEPT ![t] = "exchange"]
    /\ UNCHANGED << off_cas, atomic_num, no_non_one_diffs, cas_main, cas_spawned, cas_calls,
                    new_value, previous_value, cas_hist >>

\* lines 106-116: one iteration of the loop: the exchange succeeds and the
\* function returns (or hits unreachable!), or it fails, by contention or
\* spuriously, and `current` takes the observed value
CasExchange(t) ==
    /\ cas_pc[t] = "exchange"
    /\ new_value' = [new_value EXCEPT ![t] = NewValue(current[t])]
    /\ \/ /\ CasSucceeds(current[t], atomic_num)
          /\ atomic_num' = NewValue(current[t])
          /\ previous_value' = [previous_value EXCEPT ![t] = atomic_num]
          /\ cas_view' = [cas_view EXCEPT ![t] = NewValue(current[t])]
          /\ IF atomic_num # current[t]
             THEN /\ cas_pc' = [cas_pc EXCEPT ![t] = "unreachable"]
                  /\ UNCHANGED cas_results
             ELSE /\ cas_pc' = [cas_pc EXCEPT ![t] = "returned"]
                  /\ cas_results' = [cas_results EXCEPT ![t] =
                                        Append(@, << atomic_num, NewValue(current[t]) >>)]
          /\ UNCHANGED << current, spurious_fails, contended >>
       \/ \E observed_val \in LoadChoices(cas_view[t], atomic_num) :
             /\ observed_val = current[t] => spurious_fails < MaxSpurious
             /\ current' = [current EXCEPT ![t] = RetryValue(current[t], observed_val)]
             /\ cas_view' = [cas_view EXCEPT ![t] = Max(@, observed_val)]
             /\ spurious_fails' = IF observed_val = current[t] THEN spurious_fails + 1
                                  ELSE spurious_fails
             /\ contended' = (contended \/ observed_val # current[t])
             /\ UNCHANGED << atomic_num, previous_value, cas_pc, cas_results >>
    /\ UNCHANGED << off_cas, no_non_one_diffs, cas_main, cas_spawned, cas_calls >>

\* lines 127-137: the returned pair, its difference, the flag; next call or
\* the end of the closure
CasDiff(t) ==
    /\ cas_pc[t] = "returned"
    /\ LET diff == new_value[t] - previous_value[t]
       IN  no_non_one_diffs' = IF diff # 1 THEN FALSE ELSE no_non_one_diffs
    /\ cas_calls' = [cas_calls EXCEPT ![t] = @ + 1]
    /\ cas_pc' = [cas_pc EXCEPT ![t] =
                     IF cas_calls[t] + 1 < CAS_CALLS THEN "load" ELSE "done"]
    /\ UNCHANGED << off_cas, atomic_num, cas_main, cas_spawned, current, new_value,
                    previous_value, cas_view, cas_hist >>

\* line 141: the scope returns when every thread has ended; it panics when
\* one of them has panicked
CasScopeEnd ==
    /\ cas_main = "join"
    /\ \A t \in CasThreads : cas_pc[t] \in {"done", "unreachable"}
    /\ cas_main' = IF \E t \in CasThreads : cas_pc[t] = "unreachable"
                   THEN "panicked" ELSE "report"
    /\ UNCHANGED << off_cas, atomic_num, no_non_one_diffs, cas_spawned, cas_pc, cas_locals,
                    cas_view, cas_hist >>

\* lines 143-148: no_non_one_diffs.load(Relaxed), after the scope has joined
\* every thread
CasReport ==
    /\ cas_main = "report"
    /\ cas_main' = IF no_non_one_diffs THEN "all_one" ELSE "unreachable"
    /\ UNCHANGED << off_cas, atomic_num, no_non_one_diffs, cas_spawned, cas_pc, cas_locals,
                    cas_view, cas_hist >>

CasNext ==
    \/ CasSpawn
    \/ \E t \in CasThreads : CasLoad(t)
    \/ \E t \in CasThreads : CasExchange(t)
    \/ \E t \in CasThreads : CasDiff(t)
    \/ CasScopeEnd
    \/ CasReport

\* the Compare_&_Exchange block alone
InitCas ==
    /\ TrackerIdle
    /\ StopInit
    /\ HvIdle
    /\ pq_mode = "park"
    /\ PqInit
    /\ InteriorIdle
    /\ CasInit

CasSpec == InitCas /\ [][CasNext]_vars

\* every thread that can take a step is scheduled
CasFairSpec ==
    /\ CasSpec
    /\ WF_vars(CasSpawn)
    /\ \A t \in CasThreads : WF_vars(CasLoad(t) \/ CasExchange(t) \/ CasDiff(t))
    /\ WF_vars(CasScopeEnd)
    /\ WF_vars(CasReport)

RECURSIVE CasSumLen(_)
CasSumLen(S) == IF S = {} THEN 0
                ELSE LET t == CHOOSE x \in S : TRUE
                     IN  Len(cas_results[t]) + CasSumLen(S \ {t})

\* number of calls of plus_just_one that have returned
CasReturned == CasSumLen(CasThreads)

\* the pairs returned so far
CasPairs == UNION { Range(cas_results[t]) : t \in CasThreads }

CasAllDone == \A t \in CasThreads : cas_pc[t] = "done"

\* ---- C27
\* C27: plus_just_one behaves like fetch_add(1): the atomic's value is the
\* number of calls that have returned; the previous values returned are
\* exactly 0 .. n-1, each once, every pair being (p, p+1); a step changes the
\* atomic only by adding 1, made by a thread whose `current` is the value
\* the atomic held, which that call returns as its previous value; a failed
\* exchange leaves the atomic unchanged and continues with the observed
\* value; when all threads have finished the atomic is CAS_THREADS *
\* CAS_CALLS.
PlusJustOneIsFetchAdd ==
    /\ [](/\ atomic_num = CasReturned
          /\ { pr[1] : pr \in CasPairs } = 0 .. (CasReturned - 1)
          /\ Cardinality(CasPairs) = CasReturned
          /\ \A pr \in CasPairs : pr[2] = pr[1] + 1
          /\ (CasAllDone => atomic_num = CAS_THREADS * CAS_CALLS))
    /\ [][atomic_num' # atomic_num =>
            (/\ atomic_num' = atomic_num + 1
             /\ \E t \in CasThreads :
                   /\ cas_pc[t] = "exchange" /\ cas_pc'[t] = "returned"
                   /\ current[t] = atomic_num
                   /\ previous_value'[t] = atomic_num
                   /\ new_value'[t] = atomic_num'
                   /\ cas_results'[t] = Append(cas_results[t], << atomic_num, atomic_num' >>))]_vars
    /\ [][\A t \in CasThreads :
            cas_pc[t] = "exchange" /\ cas_pc'[t] = "exchange"
                /\ (spurious_fails' # spurious_fails \/ current'[t] # current[t]) =>
            (/\ atomic_num' = atomic_num
             /\ current'[t] >= current[t]
             /\ current'[t] <= atomic_num
             /\ current'[t] = cas_view'[t])]_vars

\* all calls have returned after a failure by contention and a spurious one
CasAllReturnedAfterRetries ==
    /\ CasAllDone
    /\ atomic_num = CAS_THREADS * CAS_CALLS
    /\ contended
    /\ spurious_fails >= 1
    /\ cas_main = "join"

\* ---- C28
\* C28: neither unreachable! is reached: no thread stops at line 111 (a call
\* that has returned got back the `current` it expected), the scope does not
\* panic, every returned pair differs by exactly 1, the flag
\* no_non_one_diffs is never cleared, and main takes the "All diffs were 1"
\* branch.
NoUnreachable ==
    /\ \A t \in CasThreads :
          /\ cas_pc[t] # "unreachable"
          /\ (cas_pc[t] = "returned" =>
                 previous_value[t] = current[t] /\ new_value[t] - previous_value[t] = 1)
    /\ \A pr \in CasPairs : pr[2] - pr[1] = 1
    /\ no_non_one_diffs
    /\ cas_main \notin {"unreachable", "panicked"}

\* main has read the flag after every thread finished, retries included
CasAllDiffsOne ==
    /\ cas_main = "all_one"
    /\ no_non_one_diffs
    /\ contended

\* ---- C29
\* C29: with spurious failures happening finitely often and every thread
\* scheduled, whenever a call is in progress some call completes (the atomic
\* advances); an exchange fails by contention only when the atomic has moved
\* past the caller's `current`, that is after another caller succeeded; and
\* all calls return: main reaches its report.
PlusJustOneTerminates ==
    /\ [][\A t \in CasThreads :
            cas_pc[t] = "exchange" /\ current'[t] # current[t] =>
                (atomic_num > current[t])]_vars
    /\ \A k \in 0 .. (CAS_THREADS * CAS_CALLS - 1) :
          (atomic_num = k /\ cas_main = "join") ~> (atomic_num > k)
    /\ <>(cas_main = "all_one")

\* the last call returned after its thread lost a race and retried
CasTerminatedAfterContention ==
    /\ cas_main = "report"
    /\ contended
    /\ spurious_fails = MaxSpurious
    /\ atomic_num = CAS_THREADS * CAS_CALLS

\* ======================================================= park-and-condvar.rs
\* const END_VALUE (lines 16 and 47, 12 in the source), scaled down
END_VALUE == 2

off_pq == << tracker_vars, stop_vars, hv_vars, cas_vars, mx_vars, ol_vars >>

\* Faulty variant of PopFront: the newest item is taken.
PopBack(q) ==
    IF q = << >> THEN [item |-> NoItem, rest |-> << >>]
    ELSE [item |-> SomeItem(q[Len(q)]), rest |-> SubSeq(q, 1, Len(q) - 1)]

\* VecDeque::pop_front: the oldest item, or None
PopFront(q) ==
    IF q = << >> THEN [item |-> NoItem, rest |-> << >>]
    ELSE [item |-> SomeItem(Head(q)), rest |-> Tail(q)]

\* VecDeque::push_back
PushBack(q, i) == Append(q, i)

\* lines 21 / 53: the consumer thread is spawned
PqSpawn ==
    /\ prod_pc = "spawn"
    /\ prod_pc' = "lock"
    /\ cons_pc' = "lock"
    /\ UNCHANGED << off_pq, pq_mode, queue, queue_lock, prod_i, item, pq_token,
                    cv_notified, popped >>

\* lines 37 / 72: queue.lock() by the producer
PqProdLock ==
    /\ prod_pc = "lock"
    /\ queue_lock = "none"
    /\ queue_lock' = "producer"
    /\ prod_pc' = "push"
    /\ UNCHANGED << off_pq, pq_mode, queue, prod_i, cons_pc, item, pq_token,
                    cv_notified, popped >>

\* lines 37 / 72: push_back(i); the guard is dropped at the end of the statement
PqProdPush ==
    /\ prod_pc = "push"
    /\ queue' = PushBack(queue, prod_i)
    /\ queue_lock' = "none"
    /\ prod_pc' = "wake"
    /\ UNCHANGED << off_pq, pq_mode, prod_i, cons_pc, item, pq_token, cv_notified,
                    popped >>

\* Faulty variant of PqProdWake: a wake-up that acts only on a consumer that
\* is already parked, so that an unpark before the park is lost.
PqProdWakeIfParked ==
    /\ prod_pc = "wake"
    /\ IF pq_mode = "park"
       THEN /\ pq_token' = (pq_token \/ cons_pc = "park")
            /\ UNCHANGED cv_notified
       ELSE /\ cv_notified' = (cv_notified \/ cons_pc = "wait")
            /\ UNCHANGED pq_token
    /\ prod_i' = prod_i + 1
    /\ prod_pc' = IF prod_i = END_VALUE THEN "join" ELSE "lock"
    /\ UNCHANGED << off_pq, pq_mode, queue, queue_lock, cons_pc, item, popped >>

\* lines 38-39: consumer.thread().unpark(), or lines 73-74: notify_one(),
\* which wakes the consumer only if it is waiting; then sleep and the next i
PqProdWake ==
    /\ prod_pc = "wake"
    /\ IF pq_mode = "park"
       THEN /\ pq_token' = TRUE
            /\ UNCHANGED cv_notified
       ELSE /\ cv_notified' = (cv_notified \/ cons_pc = "wait")
            /\ UNCHANGED pq_token
    /\ prod_i' = prod_i + 1
    /\ prod_pc' = IF prod_i = END_VALUE THEN "join" ELSE "lock"
    /\ UNCHANGED << off_pq, pq_mode, queue, queue_lock, cons_pc, item, popped >>

\* line 41: consumer.join(), or line 76: the scope joins the consumer
PqJoin ==
    /\ prod_pc = "join"
    /\ cons_pc = "done"
    /\ prod_pc' = "exit"
    /\ UNCHANGED << off_pq, pq_mode, queue, queue_lock, prod_i, cons_pc, item, pq_token,
                    cv_notified, popped >>

\* lines 23 / 55: queue.lock() by the consumer (also the re-lock when
\* Condvar::wait returns)
PqConsLock ==
    /\ cons_pc = "lock"
    /\ queue_lock = "none"
    /\ queue_lock' = "consumer"
    /\ cons_pc' = "pop"
    /\ UNCHANGED << off_pq, pq_mode, queue, prod_pc, prod_i, item, pq_token,
                    cv_notified, popped >>

\* Faulty variant of PqConsPop: the guard of the failed pop is kept while
\* the consumer parks or waits.
PqConsPopKeepsGuard ==
    /\ cons_pc = "pop"
    /\ LET r == PopFront(queue)
       IN  /\ queue' = r.rest
           /\ item' = r.item
           /\ popped' = IF r.item.some THEN Append(popped, r.item.v) ELSE popped
           /\ cons_pc' = IF pq_mode = "condvar" /\ ~r.item.some THEN "wait" ELSE "test"
           /\ queue_lock' = IF r.item.some THEN "none" ELSE queue_lock
    /\ UNCHANGED << off_pq, pq_mode, prod_pc, prod_i, pq_token, cv_notified >>

\* line 23: pop_front, the guard dropped; lines 57-63: pop_front, then either
\* break and drop(q), or Condvar::wait, which releases the mutex
PqConsPop ==
    /\ cons_pc = "pop"
    /\ LET r == PopFront(queue)
       IN  /\ queue' = r.rest
           /\ item' = r.item
           /\ popped' = IF r.item.some THEN Append(popped, r.item.v) ELSE popped
           /\ cons_pc' = IF pq_mode = "condvar" /\ ~r.item.some THEN "wait" ELSE "test"
    /\ queue_lock' = "none"
    /\ UNCHANGED << off_pq, pq_mode, prod_pc, prod_i, pq_token, cv_notified >>

\* lines 24-31 / 64-67: dbg!, break on END_VALUE; without an item, park
PqConsTest ==
    /\ cons_pc = "test"
    /\ cons_pc' = IF item.some
                  THEN IF item.v = END_VALUE THEN "done" ELSE "lock"
                  ELSE "park"
    /\ UNCHANGED << off_pq, pq_mode, queue, queue_lock, prod_pc, prod_i, item, pq_token,
                    cv_notified, popped >>

\* line 30: park returns by consuming the token
PqParkReturn ==
    /\ cons_pc = "park"
    /\ pq_token
    /\ pq_token' = FALSE
    /\ cons_pc' = "lock"
    /\ UNCHANGED << off_pq, pq_mode, queue, queue_lock, prod_pc, prod_i, item,
                    cv_notified, popped >>

\* line 30: park returns spuriously
PqParkSpurious ==
    /\ cons_pc = "park"
    /\ ~pq_token
    /\ cons_pc' = "lock"
    /\ UNCHANGED << off_pq, pq_mode, queue, queue_lock, prod_pc, prod_i, item, pq_token,
                    cv_notified, popped >>

\* Faulty variant of PqCvWake: after the wake-up the consumer goes on with
\* the result of the pop it made before waiting.
PqCvWakeNoRecheck ==
    /\ cons_pc = "wait"
    /\ cv_notified
    /\ cv_notified' = FALSE
    /\ cons_pc' = "test"
    /\ UNCHANGED << off_pq, pq_mode, queue, queue_lock, prod_pc, prod_i, item, pq_token,
                    popped >>

\* line 60: wait returns after notify_one
PqCvWake ==
    /\ cons_pc = "wait"
    /\ cv_notified
    /\ cv_notified' = FALSE
    /\ cons_pc' = "lock"
    /\ UNCHANGED << off_pq, pq_mode, queue, queue_lock, prod_pc, prod_i, item, pq_token,
                    popped >>

\* line 60: wait returns spuriously
PqCvSpurious ==
    /\ cons_pc = "wait"
    /\ ~cv_notified
    /\ cons_pc' = "lock"
    /\ UNCHANGED << off_pq, pq_mode, queue, queue_lock, prod_pc, prod_i, item, pq_token,
                    cv_notified, popped >>

PqNext ==
    \/ PqSpawn
    \/ PqProdLock
    \/ PqProdPush
    \/ PqProdWake
    \/ PqJoin
    \/ PqConsLock
    \/ PqConsPop
    \/ PqConsTest
    \/ PqParkReturn
    \/ PqParkSpurious
    \/ PqCvWake
    \/ PqCvSpurious

\* one of the two blocks of park-and-condvar.rs, alone
InitPq ==
    /\ TrackerIdle
    /\ StopInit
    /\ HvIdle
    /\ CasInit
    /\ pq_mode \in {"park", "condvar"}
    /\ PqInit
    /\ InteriorIdle

PqSpec == InitPq /\ [][PqNext]_vars

\* the items the producer has pushed so far
PqPushed == [k \in 1 .. (prod_i + (IF prod_pc = "wake" THEN 1 ELSE 0)) |-> k - 1]

\* ---- C30
\* C30: in both blocks the consumer dequeues 0, 1, ..., END_VALUE in the
\* order they were enqueued, each once: what it has popped followed by what
\* the queue holds is exactly what the producer has pushed, 0, 1, 2, ...;
\* it ends having popped all of 0 .. END_VALUE, and pops nothing afterwards.
FifoExactlyOnce ==
    /\ [](/\ popped \o queue = PqPushed
          /\ \A k \in 1 .. Len(popped) : popped[k] = k - 1
          /\ Len(popped) <= END_VALUE + 1
          /\ (cons_pc = "done" =>
                 Len(popped) = END_VALUE + 1 /\ queue = << >> /\ item = SomeItem(END_VALUE)))
    /\ [][cons_pc = "done" => (popped' = popped /\ queue' = queue /\ cons_pc' = "done")]_vars
    /\ [][popped' # popped =>
            (queue # << >> /\ popped' = Append(popped, Head(queue)) /\ queue' = Tail(queue))]_vars

\* the condition-variable block has run to its end: every item consumed,
\* the consumer ended after END_VALUE and was joined
PqAllConsumed ==
    /\ pq_mode = "condvar"
    /\ cons_pc = "done"
    /\ prod_pc = "exit"
    /\ Len(popped) = END_VALUE + 1

\* ---- scheduling of the two queue blocks
\* the steps of PqNext other than the spurious returns of park and wait
PqProgress ==
    \/ PqSpawn
    \/ PqProdLock
    \/ PqProdPush
    \/ PqProdWake
    \/ PqJoin
    \/ PqConsLock
    \/ PqConsPop
    \/ PqConsTest
    \/ PqParkReturn
    \/ PqCvWake

\* Both threads keep running; a thread in Mutex::lock gets the mutex when it
\* is free again and again (the producer sleeps 70 ms between two pushes,
\* lines 39 and 74); nothing is assumed about spurious returns.
PqFairness ==
    /\ WF_vars(PqSpawn)
    /\ SF_vars(PqProdLock)
    /\ WF_vars(PqProdPush)
    /\ WF_vars(PqProdWake)
    /\ WF_vars(PqJoin)
    /\ SF_vars(PqConsLock)
    /\ WF_vars(PqConsPop)
    /\ WF_vars(PqConsTest)
    /\ WF_vars(PqParkReturn)
    /\ WF_vars(PqCvWake)

PqFairSpec == PqSpec /\ PqFairness

\* both threads of the block have ended, the consumer after END_VALUE
PqFinished ==
    /\ cons_pc = "done"
    /\ prod_pc = "exit"
    /\ item = SomeItem(END_VALUE)

\* ---- C31
\* C31: in the park block the consumer eventually pops END_VALUE and ends
\* and the producer's join returns.  An unpark is never lost: it leaves the
\* token set whatever the consumer is doing, only a returning park takes the
\* token, so a consumer that is about to park or is parked while the queue
\* holds an item has the token and its park returns at once.  A park that
\* returns leads to the next lock and pop, and a pop of the empty queue
\* changes nothing.
ParkWakeNotLost ==
    /\ (pq_mode = "park") => <>PqFinished
    /\ []((pq_mode = "park" /\ queue # << >> /\ prod_pc # "wake"
              /\ (cons_pc = "park" \/ (cons_pc = "test" /\ ~item.some)))
           => pq_token)
    /\ [][(pq_mode = "park" /\ prod_pc = "wake" /\ prod_pc' # "wake") => pq_token']_vars
    /\ [][(pq_token /\ ~pq_token') => (cons_pc = "park" /\ cons_pc' = "lock")]_vars
    /\ [][(cons_pc = "park" /\ cons_pc' # "park")
            => (cons_pc' = "lock" /\ popped' = popped /\ queue' = queue)]_vars
    /\ [][(cons_pc = "pop" /\ queue = << >> /\ cons_pc' # "pop")
            => (popped' = popped /\ queue' = queue /\ item' = NoItem
                /\ cons_pc' = IF pq_mode = "park" THEN "test" ELSE "wait")]_vars

\* the producer has pushed and unparked between the consumer's empty pop and
\* its park
PqUnparkBeforePark ==
    /\ pq_mode = "park"
    /\ cons_pc = "test"
    /\ ~item.some
    /\ queue # << >>
    /\ pq_token
    /\ prod_pc # "wake"

\* ---- C32
\* C32: in the condition-variable block the consumer starts to wait only in
\* the step of a pop that found the queue empty, made under the lock, which
\* the wait releases; whenever a wait returns, notified or spuriously, the
\* consumer locks and pops again; a notification with no waiter leaves no
\* trace; a waiting consumer whose queue holds an item has been notified or
\* is about to be; and the consumer eventually pops END_VALUE and ends, and
\* the scope returns.
CondvarWaitRechecks ==
    /\ (pq_mode = "condvar") => <>PqFinished
    /\ []((pq_mode = "condvar" /\ cons_pc = "wait" /\ queue # << >>)
           => (cv_notified \/ prod_pc = "wake"))
    /\ [](cv_notified => (pq_mode = "condvar" /\ cons_pc = "wait"))
    /\ [](cons_pc = "wait" => (pq_mode = "condvar" /\ ~item.some /\ queue_lock # "consumer"))
    /\ [][(cons_pc # "wait" /\ cons_pc' = "wait")
            => (cons_pc = "pop" /\ queue_lock = "consumer" /\ queue = << >>
                /\ queue_lock' = "none")]_vars
    /\ [][(cons_pc = "wait" /\ cons_pc' # "wait")
            => (cons_pc' = "lock" /\ popped' = popped /\ queue' = queue)]_vars
    /\ [][(cons_pc = "lock" /\ cons_pc' # "lock")
            => (cons_pc' = "pop" /\ queue_lock' = "consumer")]_vars
    /\ [][(pq_mode = "condvar" /\ cons_pc' = "done" /\ cons_pc # "done")
            => (item = SomeItem(END_VALUE))]_vars

\* the producer has pushed the first item and notified while the consumer
\* was not waiting: the notification is gone and the item is in the queue
PqNotifiedNoWaiter ==
    /\ pq_mode = "condvar"
    /\ prod_i = 1
    /\ prod_pc = "lock"
    /\ queue = << 0 >>
    /\ popped = << >>
    /\ cons_pc = "lock"
    /\ item = NoItem
    /\ ~cv_notified

\* ---- C33
\* C33: in both blocks the queue is touched only by the thread that holds
\* the mutex, the two threads are never both between lock and unlock, the
\* consumer does not hold the mutex while it is parked or waiting (nor at
\* any point but its pop), so a producer in lock() gets the mutex; and
\* until the block has ended some step other than a spurious return is
\* always possible.
QueueMutualExclusion ==
    /\ [](/\ ~(prod_pc = "push" /\ cons_pc = "pop")
          /\ (queue_lock = "producer" <=> prod_pc = "push")
          /\ (queue_lock = "consumer" <=> cons_pc = "pop")
          /\ (cons_pc \in {"park", "wait"} => queue_lock # "consumer"))
    /\ [][(queue' # queue)
            => \/ (queue_lock = "producer" /\ prod_pc = "push" /\ queue_lock' = "none")
               \/ (queue_lock = "consumer" /\ cons_pc = "pop" /\ queue_lock' = "none")]_vars
    /\ [][(queue_lock # "none" /\ queue_lock' # queue_lock) => (queue_lock' = "none")]_vars
    /\ [](PqFinished \/ ENABLED PqProgress)
    /\ (prod_pc = "lock") ~> (prod_pc = "push")

\* the consumer is parked or waiting, the mutex is free and the producer is
\* about to take it for a push
PqProducerLocksWhileConsumerSleeps ==
    /\ cons_pc \in {"park", "wait"}
    /\ queue_lock = "producer"
    /\ prod_pc = "push"
    /\ prod_i >= 1

\* =========================================================== interior-mut.rs
\* ---- the Mutex block, lines 105-130
off_mx == << tracker_vars, stop_vars, hv_vars, cas_vars, pq_vars, ol_vars >>

\* lines 111 and 128: n.lock().unwrap() printed; the guard is a temporary
MxMainPrint ==
    /\ mx_main \in {"print", "final"}
    /\ n_guard = NoThread
    /\ mx_out' = Append(mx_out, mutex_n)
    /\ mx_main' = IF mx_main = "print" THEN "spawn" ELSE "done"
    /\ UNCHANGED << off_mx, mutex_n, n_guard, mx_spawned, mx_pc, mx_adds, mx_seen >>

\* lines 113-114: the loop spawns the next thread
MxSpawn ==
    /\ mx_main = "spawn"
    /\ mx_pc' = [mx_pc EXCEPT ![mx_spawned] = "lock"]
    /\ mx_spawned' = mx_spawned + 1
    /\ mx_main' = IF mx_spawned + 1 = MX_THREADS THEN "scope_end" ELSE "spawn"
    /\ UNCHANGED << off_mx, mutex_n, n_guard, mx_adds, mx_seen, mx_out >>

\* Faulty variant of MxLock: the lock is handed out while it is held.
MxLockNoExclusion(t) ==
    /\ mx_pc[t] = "lock"
    /\ n_guard' = t
    /\ mx_pc' = [mx_pc EXCEPT ![t] = "print"]
    /\ UNCHANGED << off_mx, mutex_n, mx_main, mx_spawned, mx_adds, mx_seen, mx_out >>

\* line 115: let mut guard = n.lock().unwrap()
MxLock(t) ==
    /\ mx_pc[t] = "lock"
    /\ n_guard = NoThread
    /\ n_guard' = t
    /\ mx_pc' = [mx_pc EXCEPT ![t] = "print"]
    /\ UNCHANGED << off_mx, mutex_n, mx_main, mx_spawned, mx_adds, mx_seen, mx_out >>

\* line 116: print!("  {:<4}", guard)
MxPrint(t) ==
    /\ mx_pc[t] = "print"
    /\ mx_seen' = [mx_seen EXCEPT ![t] = SomeI32(mutex_n)]
    /\ mx_pc' = [mx_pc EXCEPT ![t] = "add"]
    /\ UNCHANGED << off_mx, mutex_n, n_guard, mx_main, mx_spawned, mx_adds, mx_out >>

\* lines 117-120: one iteration, *guard += 1
MxAdd(t) ==
    /\ mx_pc[t] = "add"
    /\ mx_adds[t] < MX_ADDS
    /\ mutex_n' = mutex_n + 1
    /\ mx_adds' = [mx_adds EXCEPT ![t] = @ + 1]
    /\ mx_pc' = [mx_pc EXCEPT ![t] = IF mx_adds[t] + 1 = MX_ADDS THEN "drop" ELSE "add"]
    /\ UNCHANGED << off_mx, n_guard, mx_main, mx_spawned, mx_seen, mx_out >>

\* line 122: drop(guard)
MxDrop(t) ==
    /\ mx_pc[t] = "drop"
    /\ n_guard' = IF n_guard = t THEN NoThread ELSE n_guard
    /\ mx_pc' = [mx_pc EXCEPT ![t] = "sleep"]
    /\ UNCHANGED << off_mx, mutex_n, mx_main, mx_spawned, mx_adds, mx_seen, mx_out >>

\* line 123: the sleep ends and with it the thread
MxSleep(t) ==
    /\ mx_pc[t] = "sleep"
    /\ mx_pc' = [mx_pc EXCEPT ![t] = "done"]
    /\ UNCHANGED << off_mx, mutex_n, n_guard, mx_main, mx_spawned, mx_adds, mx_seen, mx_out >>

\* line 127: the scope returns when every thread has ended
MxScopeEnd ==
    /\ mx_main = "scope_end"
    /\ \A t \in MxThreads : mx_pc[t] = "done"
    /\ mx_main' = "final"
    /\ UNCHANGED << off_mx, mutex_n, n_guard, mx_spawned, mx_pc, mx_adds, mx_seen, mx_out >>

MxNext ==
    \/ MxMainPrint
    \/ MxSpawn
    \/ \E t \in MxThreads : MxLock(t)
    \/ \E t \in MxThreads : MxPrint(t)
    \/ \E t \in MxThreads : MxAdd(t)
    \/ \E t \in MxThreads : MxDrop(t)
    \/ \E t \in MxThreads : MxSleep(t)
    \/ MxScopeEnd

\* the Mutex block alone
InitMx ==
    /\ TrackerIdle
    /\ StopInit
    /\ HvIdle
    /\ CasInit
    /\ pq_mode = "park"
    /\ PqInit
    /\ OnceInit
    /\ MxInit

MxSpec == InitMx /\ [][MxNext]_vars

\* the values a thread can find on taking the lock: 0, MX_ADDS, 2 * MX_ADDS, ...
MxBatchStarts == {k * MX_ADDS : k \in 0 .. (MX_THREADS - 1)}

\* ---- C34
\* C34: a thread holds the lock from its print to its drop, through its
\* whole batch of MX_ADDS increments, and the integer changes only by +1 in
\* a step of the holder; so the value a thread prints on taking the lock is
\* a multiple of the batch size among 0, MX_ADDS, ..., (MX_THREADS - 1) *
\* MX_ADDS, no two threads print the same value, main's first print is 0
\* and its last is MX_THREADS * MX_ADDS, in every interleaving.
MutexBatchesAreWhole ==
    /\ [](/\ \A t \in MxThreads :
                /\ (mx_pc[t] \in {"print", "add", "drop"} <=> n_guard = t)
                /\ (mx_seen[t].some => mx_seen[t].v \in MxBatchStarts)
                /\ (mx_seen[t].some => mutex_n >= mx_seen[t].v + mx_adds[t])
                /\ (n_guard = t /\ mx_seen[t].some => mutex_n = mx_seen[t].v + mx_adds[t])
                /\ (mx_pc[t] \in {"sleep", "done"} => mx_adds[t] = MX_ADDS)
          /\ \A t \in MxThreads : \A u \in MxThreads :
                (t # u /\ mx_seen[t].some /\ mx_seen[u].some) => (mx_seen[t] # mx_seen[u])
          /\ (mx_main \in {"final", "done"} => mutex_n = MX_THREADS * MX_ADDS)
          /\ (mx_main = "done" => mx_out = << 0, MX_THREADS * MX_ADDS >>))
    /\ [][(mutex_n' # mutex_n)
            => (n_guard # NoThread /\ n_guard' = n_guard /\ mutex_n' = mutex_n + 1)]_vars

\* the block has ended and the thread spawned first was the last to get
\* the lock
MxDoneOutOfSpawnOrder ==
    /\ mx_main = "done"
    /\ mx_seen[0] = SomeI32((MX_THREADS - 1) * MX_ADDS)
    /\ mx_out = << 0, MX_THREADS * MX_ADDS >>

\* ---- the OnceLock loop, lines 198-216
off_ol == << tracker_vars, stop_vars, hv_vars, cas_vars, pq_vars, mx_vars >>

\* line 199: a new OnceLock for this round (and a new scope of threads)
OlNew ==
    /\ ol_main = "new"
    /\ ol_round < OL_ROUNDS
    /\ ol_round' = ol_round + 1
    /\ once_lockos' = NoI32
    /\ once_state' = "incomplete"
    /\ ol_spawned' = 0
    /\ ol_pc' = [t \in OlThreads |-> "unspawned"]
    /\ val' = [t \in OlThreads |-> NoI32]
    /\ ol_inits' = << >>
    /\ ol_gets' = << >>
    /\ ol_main' = "get"
    /\ UNCHANGED off_ol

\* OnceLock::get: the value if the Once is complete, else None
OnceGet == IF once_state = "complete" THEN once_lockos ELSE NoI32

\* lines 200 and 215: once_lockos.get() printed
OlMainGet ==
    /\ ol_main \in {"get", "final_get"}
    /\ ol_gets' = Append(ol_gets, OnceGet)
    /\ ol_main' = IF ol_main = "get" THEN "spawn"
                  ELSE IF ol_round = OL_ROUNDS THEN "done" ELSE "new"
    /\ UNCHANGED << off_ol, once_lockos, once_state, ol_round, ol_spawned, ol_pc, val,
                    ol_inits >>

\* lines 202-204: the loop spawns thread i
OlSpawn ==
    /\ ol_main = "spawn"
    /\ ol_pc' = [ol_pc EXCEPT ![ol_spawned] = "sleep"]
    /\ ol_spawned' = ol_spawned + 1
    /\ ol_main' = IF ol_spawned + 1 = OL_THREADS THEN "scope_end" ELSE "spawn"
    /\ UNCHANGED << off_ol, once_lockos, once_state, ol_round, val, ol_inits, ol_gets >>

\* line 205: the sleep ends
OlSleep(t) ==
    /\ ol_pc[t] = "sleep"
    /\ ol_pc' = [ol_pc EXCEPT ![t] = "get_or_init"]
    /\ UNCHANGED << off_ol, once_lockos, once_state, ol_main, ol_round, ol_spawned, val,
                    ol_inits, ol_gets >>

\* line 206, get_or_init on an initialised OnceLock: the value, no closure
OlFast(t) ==
    /\ ol_pc[t] = "get_or_init"
    /\ once_state = "complete"
    /\ val' = [val EXCEPT ![t] = once_lockos]
    /\ ol_pc' = [ol_pc EXCEPT ![t] = "print"]
    /\ UNCHANGED << off_ol, once_lockos, once_state, ol_main, ol_round, ol_spawned,
                    ol_inits, ol_gets >>

\* Faulty variant of OlBegin: a thread starts an initialiser whenever the
\* value is not there yet, also while another initialiser runs.
OlBeginRacy(t) ==
    /\ ol_pc[t] = "get_or_init"
    /\ once_state # "complete"
    /\ once_state' = "running"
    /\ ol_pc' = [ol_pc EXCEPT ![t] = "init"]
    /\ UNCHANGED << off_ol, once_lockos, ol_main, ol_round, ol_spawned, val, ol_inits,
                    ol_gets >>

\* line 206, get_or_init on an empty OnceLock: this thread takes the Once
\* from incomplete to running and will run its closure
OlBegin(t) ==
    /\ ol_pc[t] = "get_or_init"
    /\ once_state = "incomplete"
    /\ once_state' = "running"
    /\ ol_pc' = [ol_pc EXCEPT ![t] = "init"]
    /\ UNCHANGED << off_ol, once_lockos, ol_main, ol_round, ol_spawned, val, ol_inits,
                    ol_gets >>

\* line 206, get_or_init while another thread initialises: block
OlBlock(t) ==
    /\ ol_pc[t] = "get_or_init"
    /\ once_state = "running"
    /\ ol_pc' = [ol_pc EXCEPT ![t] = "wait"]
    /\ UNCHANGED << off_ol, once_lockos, once_state, ol_main, ol_round, ol_spawned, val,
                    ol_inits, ol_gets >>

\* lines 206-210: the closure runs (init_with = i), its result is stored,
\* the Once becomes complete and get_or_init returns the stored value
OlRunInit(t) ==
    /\ ol_pc[t] = "init"
    /\ ol_inits' = Append(ol_inits, t)
    /\ once_lockos' = SomeI32(t)
    /\ once_state' = "complete"
    /\ val' = [val EXCEPT ![t] = SomeI32(t)]
    /\ ol_pc' = [ol_pc EXCEPT ![t] = "print"]
    /\ UNCHANGED << off_ol, ol_main, ol_round, ol_spawned, ol_gets >>

\* line 206: a blocked get_or_init returns the value once the Once is complete
OlWake(t) ==
    /\ ol_pc[t] = "wait"
    /\ once_state = "complete"
    /\ val' = [val EXCEPT ![t] = once_lockos]
    /\ ol_pc' = [ol_pc EXCEPT ![t] = "print"]
    /\ UNCHANGED << off_ol, once_lockos, once_state, ol_main, ol_round, ol_spawned,
                    ol_inits, ol_gets >>

\* line 211: print!("    OnceLock value: {:?}", val), the thread ends
OlPrint(t) ==
    /\ ol_pc[t] = "print"
    /\ ol_pc' = [ol_pc EXCEPT ![t] = "done"]
    /\ UNCHANGED << off_ol, once_lockos, once_state, ol_main, ol_round, ol_spawned, val,
                    ol_inits, ol_gets >>

\* line 214: the scope returns when every thread has ended
OlScopeEnd ==
    /\ ol_main = "scope_end"
    /\ \A t \in OlThreads : ol_pc[t] = "done"
    /\ ol_main' = "final_get"
    /\ UNCHANGED << off_ol, once_lockos, once_state, ol_round, ol_spawned, ol_pc, val,
                    ol_inits, ol_gets >>

OlNext ==
    \/ OlNew
    \/ OlMainGet
    \/ OlSpawn
    \/ \E t \in OlThreads : OlSleep(t)
    \/ \E t \in OlThreads : OlFast(t)
    \/ \E t \in OlThreads : OlBegin(t)
    \/ \E t \in OlThreads : OlBlock(t)
    \/ \E t \in OlThreads : OlRunInit(t)
    \/ \E t \in OlThreads : OlWake(t)
    \/ \E t \in OlThreads : OlPrint(t)
    \/ OlScopeEnd

\* the OnceLock loop alone
InitOl ==
    /\ TrackerIdle
    /\ StopInit
    /\ HvIdle
    /\ CasInit
    /\ pq_mode = "park"
    /\ PqInit
    /\ MxInit
    /\ OnceInit

OlSpec == InitOl /\ [][OlNext]_vars

\* ---- C35
\* C35: in every round at most one initialiser closure runs, and exactly
\* one once a thread has its value; the OnceLock holds that thread's index,
\* every thread's val is that value, main reads None before any thread of
\* the round runs and that value after the scope, and the value of one
\* OnceLock, once set, never changes.
OnceLockInitOnce ==
    /\ [](/\ Len(ol_inits) <= 1
          /\ (once_state = "complete" <=> Len(ol_inits) = 1)
          /\ (once_state = "complete" <=> once_lockos.some)
          /\ (once_lockos.some =>
                (once_lockos = SomeI32(ol_inits[1]) /\ ol_inits[1] \in OlThreads))
          /\ \A t \in OlThreads :
                /\ (val[t].some => val[t] = once_lockos)
                /\ (ol_pc[t] \in {"print", "done"} <=> val[t].some)
          /\ (Len(ol_gets) >= 1 => ol_gets[1] = NoI32)
          /\ (ol_main \in {"final_get", "done"} => Len(ol_inits) = 1)
          /\ (Len(ol_gets) = 2 => ol_gets[2] = SomeI32(ol_inits[1]))
          /\ (ol_main = "done" => Len(ol_gets) = 2))
    /\ [][(once_lockos.some /\ ol_round' = ol_round) => (once_lockos' = once_lockos)]_vars
    /\ [][(ol_main = "get") => (ol_gets' = << NoI32 >>)]_vars

\* the last round has ended: the thread spawned last ran the initialiser,
\* every thread has its index, and so has main
OnceLockLastThreadWon ==
    /\ ol_main = "done"
    /\ ol_round = OL_ROUNDS
    /\ ol_inits = << OL_THREADS - 1 >>
    /\ \A t \in OlThreads : val[t] = SomeI32(OL_THREADS - 1)
    /\ ol_gets = << NoI32, SomeI32(OL_THREADS - 1) >>

====
